---- MODULE Spec2Model ----
(***************************************************************************)
(* Model of app/mtga_KR_patcher.py: the ability-text substitution of       *)
(* update_ability_text (protect / replace / particle repair / restore),    *)
(* the store it reads and commits to, and the patch ledger of              *)
(* run_image_change.                                                       *)
(*                                                                         *)
(* A text is a sequence of Unicode code points.  Indices of the Python     *)
(* source are 0-based; the helpers below keep them 0-based and translate   *)
(* to TLA+'s 1-based sequences at the point of access.                     *)
(***************************************************************************)
EXTENDS Integers, Sequences, FiniteSets, TLC

(***************************************************************************)
(* Code points used by the model's texts.                                  *)
(***************************************************************************)
Chr ==
    [ sp |-> 32, comma |-> 44, d0 |-> 48, A |-> 65, B |-> 66, C |-> 67,
      us |-> 95,
      ga |-> 44032,      \* 가  no trailing consonant (also a particle)
      gak |-> 44033,     \* 각  trailing consonant
      na |-> 45208,      \* 나  no trailing consonant
      eun |-> 51008, neun |-> 45716,   \* 은 / 는
      i |-> 51060,                     \* 이 / 가
      eul |-> 51012, reul |-> 47484,   \* 을 / 를
      gwa |-> 44284, wa |-> 50752 ]    \* 과 / 와

(***************************************************************************)
(* Python str operations on sequences of code points.                      *)
(***************************************************************************)
\* s[a:b]
Slice(s, a, b) == SubSeq(s, a + 1, b)

\* s[i:i+len(sub)] == sub
StartsAt(s, sub, i) ==
    /\ i >= 0
    /\ i + Len(sub) <= Len(s)
    /\ SubSeq(s, i + 1, i + Len(sub)) = sub

\* s.find(sub, start)
Find(s, sub, start) ==
    LET hits == { i \in start..(Len(s) - Len(sub)) : StartsAt(s, sub, i) }
    IN  IF hits = {} THEN -1
        ELSE CHOOSE i \in hits : \A j \in hits : i <= j

\* sub in s
Contains(sub, s) == Find(s, sub, 0) # -1

RECURSIVE Interleave(_, _)
\* "".join: new before every character of s (the tail of s.replace("", new))
Interleave(s, new) ==
    IF s = <<>> THEN <<>>
    ELSE new \o <<Head(s)>> \o Interleave(Tail(s), new)

RECURSIVE ReplaceFrom(_, _, _)
ReplaceFrom(s, old, new) ==
    LET i == Find(s, old, 0)
    IN  IF i = -1 THEN s
        ELSE Slice(s, 0, i) \o new
             \o ReplaceFrom(Slice(s, i + Len(old), Len(s)), old, new)

\* s.replace(old, new): every non-overlapping occurrence, left to right; an
\* empty old matches at every gap between characters and at both ends.
Replace(s, old, new) ==
    IF old = <<>> THEN Interleave(s, new) \o new
    ELSE ReplaceFrom(s, old, new)

IsSpace(c) == c \in {9, 10, 11, 12, 13, 32}

RECURSIVE LStrip(_)
LStrip(s) == IF s # <<>> /\ IsSpace(Head(s)) THEN LStrip(Tail(s)) ELSE s

RECURSIVE RStrip(_)
RStrip(s) ==
    IF s # <<>> /\ IsSpace(s[Len(s)]) THEN RStrip(SubSeq(s, 1, Len(s) - 1))
    ELSE s

\* s.strip()
Strip(s) == RStrip(LStrip(s))

\* s.split(sep)[0] for a one-character sep
SplitFirst(s, sep) ==
    LET i == Find(s, <<sep>>, 0)
    IN  IF i = -1 THEN s ELSE Slice(s, 0, i)

\* s.split(sep)[-1] for a one-character sep
SplitLast(s, sep) ==
    LET hits == { i \in 0..(Len(s) - 1) : s[i + 1] = sep }
    IN  IF hits = {} THEN s
        ELSE LET last == CHOOSE i \in hits : \A j \in hits : j <= i
             IN  Slice(s, last + 1, Len(s))

RECURSIVE Digits(_)
\* str(i) for i >= 0
Digits(i) ==
    IF i < 10 THEN <<Chr.d0 + i>>
    ELSE Digits(i \div 10) \o <<Chr.d0 + (i % 10)>>

\* f"__PROTECTED_{i}__"
Placeholder(i) ==
    <<95, 95, 80, 82, 79, 84, 69, 67, 84, 69, 68, 95>> \o Digits(i) \o <<95, 95>>

(***************************************************************************)
(* unicodedata.normalize('NFD', text) on Hangul syllable blocks: a block   *)
(* decomposes into lead consonant, vowel and optional trailing consonant;  *)
(* the other code points of the model's texts have no decomposition.       *)
(***************************************************************************)
IsSyllable(c) == 44032 <= c /\ c <= 55203

DecomposeChar(c) ==
    IF IsSyllable(c)
    THEN LET s == c - 44032
             l == 4352 + (s \div 588)
             v == 4449 + ((s % 588) \div 28)
             t == s % 28
         IN  IF t = 0 THEN <<l, v>> ELSE <<l, v, 4519 + t>>
    ELSE <<c>>

RECURSIVE formatting_for_2(_)
formatting_for_2(text) ==
    IF text = <<>> THEN <<>>
    ELSE DecomposeChar(Head(text)) \o formatting_for_2(Tail(text))

(***************************************************************************)
(* The substitution of update_ability_text.  A result is a record          *)
(* [st, text]: st = "ok" with the text produced, "hang" when the loop of   *)
(* the source does not terminate, "raise" when the source raises.          *)
(***************************************************************************)
Ok(text) == [st |-> "ok", text |-> text]

\* a faulty has_final_consonant: a character outside the block range counts as
\* ending in a vowel
has_final_consonant_VowelDefault(char) ==
    IF Chr.ga <= char /\ char <= 55203 THEN (char - Chr.ga) % 28 > 0
    ELSE FALSE

\* has_final_consonant(char)
has_final_consonant(char) ==
    IF Chr.ga <= char /\ char <= 55203 THEN (char - Chr.ga) % 28 > 0
    ELSE TRUE

\* the if / elif chain choosing josa_pair; <<>> stands for None
JosaPair(next_char) ==
    IF next_char \in {Chr.eun, Chr.neun} THEN <<Chr.eun, Chr.neun>>
    ELSE IF next_char \in {Chr.i, Chr.ga} THEN <<Chr.i, Chr.ga>>
    ELSE IF next_char \in {Chr.eul, Chr.reul} THEN <<Chr.eul, Chr.reul>>
    ELSE IF next_char \in {Chr.gwa, Chr.wa} THEN <<Chr.gwa, Chr.wa>>
    ELSE <<>>

\* correct_josa = josa_pair[0] if has_final_consonant(new[-1]) else josa_pair[1]
CorrectJosa(josa_pair, new) ==
    IF has_final_consonant(new[Len(new)]) THEN josa_pair[1] ELSE josa_pair[2]

\* a faulty repair: it swaps the particle for the other form of its pair
\* whatever the inserted name ends in
RepairJosa_Swap(work_text, josa_index, new) ==
    IF josa_index < Len(work_text) /\ JosaPair(work_text[josa_index + 1]) # <<>>
    THEN LET next_char == work_text[josa_index + 1]
             josa_pair == JosaPair(next_char)
             other == IF next_char = josa_pair[1] THEN josa_pair[2] ELSE josa_pair[1]
         IN  Ok(Slice(work_text, 0, josa_index) \o <<other>>
                \o Slice(work_text, josa_index + 1, Len(work_text)))
    ELSE Ok(work_text)

\* a faulty repair: it inserts the particle form instead of overwriting the
\* particle that follows
RepairJosa_Insert(work_text, josa_index, new) ==
    IF josa_index < Len(work_text) /\ JosaPair(work_text[josa_index + 1]) # <<>>
    THEN IF new = <<>> THEN [st |-> "raise", text |-> work_text]
         ELSE LET next_char == work_text[josa_index + 1]
                  correct_josa == CorrectJosa(JosaPair(next_char), new)
              IN  IF next_char # correct_josa
                  THEN Ok(Slice(work_text, 0, josa_index) \o <<correct_josa>>
                          \o Slice(work_text, josa_index, Len(work_text)))
                  ELSE Ok(work_text)
    ELSE Ok(work_text)

\* The particle repair after an insertion ending at josa_index (0-based).
\* new[-1] of an empty new raises IndexError.
RepairJosa(work_text, josa_index, new) ==
    IF josa_index < Len(work_text)
    THEN LET next_char == work_text[josa_index + 1]
             josa_pair == JosaPair(next_char)
         IN  IF josa_pair # <<>>
             THEN IF new = <<>> THEN [st |-> "raise", text |-> work_text]
                  ELSE IF next_char # CorrectJosa(josa_pair, new)
                       THEN Ok(Slice(work_text, 0, josa_index)
                               \o <<CorrectJosa(josa_pair, new)>>
                               \o Slice(work_text, josa_index + 1, Len(work_text)))
                       ELSE Ok(work_text)
             ELSE Ok(work_text)
    ELSE Ok(work_text)

\* work_text[:index] + new + work_text[index + len(old):]
Splice(work_text, index, old, new) ==
    Slice(work_text, 0, index) \o new
    \o Slice(work_text, index + Len(old), Len(work_text))

\* One pass of the while body for an occurrence found at index.
KoIteration(work_text, index, old, new) ==
    RepairJosa(Splice(work_text, index, old, new), index + Len(new), new)

RECURSIVE KoLoop(_, _, _, _)
\* while start_index < len(work_text): ... for one (old, new).  With an empty
\* old, find returns start_index itself and both start_index and
\* len(work_text) grow by len(new), so the loop condition never turns false.
KoLoop(work_text, old, new, start_index) ==
    IF ~(start_index < Len(work_text)) THEN Ok(work_text)
    ELSE LET index == Find(work_text, old, start_index)
         IN  IF index = -1 THEN Ok(work_text)
             ELSE LET r == KoIteration(work_text, index, old, new)
                  IN  IF r.st # "ok" THEN r
                      ELSE IF old = <<>> THEN [st |-> "hang", text |-> r.text]
                      ELSE KoLoop(r.text, old, new, index + Len(new))

RECURSIVE KoReplaceAll(_, _, _)
\* for old, new in replace_map: ...
KoReplaceAll(work_text, replace_map, k) ==
    IF k > Len(replace_map) THEN Ok(work_text)
    ELSE LET r == KoLoop(work_text, replace_map[k][1], replace_map[k][2], 0)
         IN  IF r.st # "ok" THEN r
             ELSE KoReplaceAll(r.text, replace_map, k + 1)

RECURSIVE EnReplaceAll(_, _, _)
\* for old, new in replacements['en']: work_text = work_text.replace(old, new)
EnReplaceAll(work_text, replace_map, k) ==
    IF k > Len(replace_map) THEN work_text
    ELSE EnReplaceAll(Replace(work_text, replace_map[k][1], replace_map[k][2]),
                      replace_map, k + 1)

\* One pass of the protect loop for sorted_creature_types[i] (i from 1).
ProtectOne(st, creature_type, i) ==
    IF Contains(creature_type, st.work_text)
    THEN [work_text |-> Replace(st.work_text, creature_type, Placeholder(i - 1)),
          protected_map |-> Append(st.protected_map,
                                   <<Placeholder(i - 1), creature_type>>)]
    ELSE st

RECURSIVE ProtectFrom(_, _, _)
ProtectFrom(st, sorted_creature_types, i) ==
    IF i > Len(sorted_creature_types) THEN st
    ELSE ProtectFrom(ProtectOne(st, sorted_creature_types[i], i),
                     sorted_creature_types, i + 1)

\* protected_map, work_text = {}, loc_text; for i, creature_type in enumerate(...)
Protect(loc_text, sorted_creature_types) ==
    ProtectFrom([work_text |-> loc_text, protected_map |-> <<>>],
                sorted_creature_types, 1)

RECURSIVE RestoreFrom(_, _, _)
RestoreFrom(work_text, protected_map, k) ==
    IF k > Len(protected_map) THEN work_text
    ELSE RestoreFrom(Replace(work_text, protected_map[k][1], protected_map[k][2]),
                     protected_map, k + 1)

\* for placeholder, original_word in protected_map.items(): ...
Restore(work_text, protected_map) == RestoreFrom(work_text, protected_map, 1)

\* The English branch on one record.
SubstituteEn(loc_text, sorted_creature_types, replace_map) ==
    LET p == Protect(loc_text, sorted_creature_types)
    IN  Ok(Restore(EnReplaceAll(p.work_text, replace_map, 1), p.protected_map))

\* The Korean branch on one record.
SubstituteKo(loc_text, sorted_creature_types, replace_map) ==
    LET p == Protect(loc_text, sorted_creature_types)
        r == KoReplaceAll(p.work_text, replace_map, 1)
    IN  IF r.st # "ok" THEN r
        ELSE Ok(Restore(r.text, p.protected_map))

(***************************************************************************)
(* The replacement pairs of one directive.  A pair is <<old, new>>.        *)
(***************************************************************************)
HasChar(s, c) == \E k \in 1..Len(s) : s[k] = c

\* English: the full pair, and the text before the first comma (both sides)
\* or before the first space (old side only).
EnPairs(origin_en, new_en) ==
    IF origin_en # <<>> /\ new_en # <<>>
    THEN <<<<origin_en, new_en>>>>
         \o (IF HasChar(origin_en, Chr.comma)
             THEN <<<<Strip(SplitFirst(origin_en, Chr.comma)),
                      Strip(SplitFirst(new_en, Chr.comma))>>>>
             ELSE IF HasChar(origin_en, Chr.sp)
             THEN <<<<Strip(SplitFirst(origin_en, Chr.sp)), new_en>>>>
             ELSE <<>>)
    ELSE <<>>

\* Korean (either normalization form): the full pair, and the text after the
\* last comma (new side too when it has a comma) or after the last space.
KoPairs(origin_ko, new_ko) ==
    IF origin_ko # <<>> /\ new_ko # <<>>
    THEN <<<<origin_ko, new_ko>>>>
         \o (IF HasChar(origin_ko, Chr.comma)
             THEN <<<<Strip(SplitLast(origin_ko, Chr.comma)),
                      IF HasChar(new_ko, Chr.comma)
                      THEN Strip(SplitLast(new_ko, Chr.comma)) ELSE new_ko>>>>
             ELSE IF HasChar(origin_ko, Chr.sp)
             THEN <<<<Strip(SplitLast(origin_ko, Chr.sp)), new_ko>>>>
             ELSE <<>>)
    ELSE <<>>

RECURSIVE Dedupe(_)
\* list(set(pairs)), keeping the first of equal pairs
Dedupe(pairs) ==
    IF pairs = <<>> THEN <<>>
    ELSE LET rest == Dedupe(SubSeq(pairs, 1, Len(pairs) - 1))
             last == pairs[Len(pairs)]
         IN  IF \E k \in 1..Len(rest) : rest[k] = last THEN rest
             ELSE Append(rest, last)

RECURSIVE SortByOldLen_Ascending(_)
\* the same sort without reverse=True: shortest old side first
SortByOldLen_Ascending(pairs) ==
    IF pairs = <<>> THEN <<>>
    ELSE LET rest == SortByOldLen_Ascending(SubSeq(pairs, 1, Len(pairs) - 1))
             last == pairs[Len(pairs)]
             n == Cardinality({ k \in 1..Len(rest) :
                                  Len(rest[k][1]) <= Len(last[1]) })
         IN  SubSeq(rest, 1, n) \o <<last>> \o SubSeq(rest, n + 1, Len(rest))

RECURSIVE SortByOldLen(_)
\* sorted(..., key=lambda x: len(x[0]), reverse=True): stable insertion by
\* descending length of the old side
SortByOldLen(pairs) ==
    IF pairs = <<>> THEN <<>>
    ELSE LET rest == SortByOldLen(SubSeq(pairs, 1, Len(pairs) - 1))
             last == pairs[Len(pairs)]
             n == Cardinality({ k \in 1..Len(rest) :
                                  Len(rest[k][1]) >= Len(last[1]) })
         IN  SubSeq(rest, 1, n) \o <<last>> \o SubSeq(rest, n + 1, Len(rest))

\* replacements[key] after the sort of line 416, for one directive (card)
Replacements(card) ==
    [ en |-> SortByOldLen(Dedupe(EnPairs(card.origin_en_name, card.new_en_name))),
      ko_nfc |-> SortByOldLen(Dedupe(KoPairs(card.origin_ko_name.nfc,
                                             card.new_ko_name.nfc))),
      ko_nfd |-> SortByOldLen(Dedupe(KoPairs(card.origin_ko_name.nfd,
                                             card.new_ko_name.nfd))) ]

(***************************************************************************)
(* State.                                                                  *)
(*   substVars: one record passing through the protect / replace /        *)
(*   restore steps of update_ability_text, one loop iteration per step.   *)
(***************************************************************************)
VARIABLES
    lang,                   \* "en" or "ko": which branch handles the record
    card,                   \* the directive the pairs were derived from
    loc_text,               \* the record's text as read from the store
    sorted_creature_types,  \* the protect terms, longest first
    replace_map,            \* the ordered (old, new) pairs
    work_text,
    protected_map,          \* sequence of <<placeholder, original_word>>
    phase,                  \* "protect", "replace", "done", "raised"
    type_i,                 \* next index into sorted_creature_types (from 1)
    pair_k,                 \* next index into replace_map (from 1)
    start_index,
    iters,                  \* iterations of the while loop for this pair
    last_rep,               \* what the latest replacement step did
    pass                    \* 1: the substitution; 2: run again on its output

substVars ==
    <<lang, card, loc_text, sorted_creature_types, replace_map, work_text,
      protected_map, phase, type_i, pair_k, start_index, iters, last_rep, pass>>

(***************************************************************************)
(*   abilityVars: the text store and one call after another of             *)
(*   update_ability_text on it.  A store maps <<LocId, Formatted>> to Loc. *)
(***************************************************************************)
VARIABLES
    enUS,               \* Localizations_enUS
    koKR,               \* Localizations_koKR
    translation_data,   \* the directive list handed to the call
    only_english,
    upc,                \* "idle", "cards", "done", "hung", "failed", "failed_write"
    card_i,             \* index of the directive the for loop is at (from 1)
    creature_types,     \* [en, ko_nfc, ko_nfd]: the protect terms read
    all_updates_en,     \* sequence of <<work_text, loc_id>>
    all_updates_ko,     \* sequence of <<work_text, loc_id, formatted>>
    runs,               \* calls that reached their commit
    enUS_start,         \* the stores when the current call began
    koKR_start

abilityVars ==
    <<enUS, koKR, translation_data, only_english, upc, card_i, creature_types,
      all_updates_en, all_updates_ko, runs, enUS_start, koKR_start>>

(***************************************************************************)
(*   imageVars: the patch ledger and one run after another of              *)
(*   run_image_change.  A ledger maps a log key to its entry.              *)
(***************************************************************************)
VARIABLES
    patch_file,          \* patch_log.json: missing, corrupt, or the ledger it holds
    patch_log,           \* patch_log['patched_images'] of the running call
    log_shape,           \* "object", or what json.load returned instead
    scryfall_url,        \* art id -> the art_crop URL its name resolves to
    assets,              \* art id -> what its asset bundle holds
    ipc,                 \* "off", "idle", "loaded", "selected", "patching", "raised"
    art_ids_to_download, \* art id -> URL
    downloaded_images,   \* art id -> the URL its content was fetched from
    pending,             \* downloaded art ids the patch loops have not reached
    applied,             \* art ids whose replace_* returned True in this run
    log_loaded,          \* the ledger as this run loaded it
    image_runs,          \* runs that reached the save
    prev                 \* what the previous run selected, recorded and saved

imageVars ==
    <<patch_file, patch_log, log_shape, scryfall_url, assets, ipc,
      art_ids_to_download, downloaded_images, pending, applied, log_loaded,
      image_runs, prev>>

(***************************************************************************)
(*   resolveVars: the part of run_image_change that picks a lookup name    *)
(*   for every art id and looks it up in the catalog.                      *)
(***************************************************************************)
VARIABLES
    card_rows,                \* the Cards rows get_target_card_data selected
    en_names,                 \* LocId -> Loc of Localizations_enUS (names)
    target_cards,             \* what get_target_card_data returned
    scryfall_data,            \* expansion code -> normalized name -> card_info
    all_art_ids_to_fetch_url, \* art id -> [name, exp_code, is_sleeve]
    fetch_url,                \* art id -> the URL handed to the gate
    not_found,                \* art ids logged as not found in the catalog
    rpc                       \* "off", "rows", "cards", "lookup"

resolveVars ==
    <<card_rows, en_names, target_cards, scryfall_data, all_art_ids_to_fetch_url,
      fetch_url, not_found, rpc>>

(***************************************************************************)
(*   removalVars: run_patch_removal                                        *)
(***************************************************************************)
VARIABLES
    patched_items,   \* patch_log.get('patched_images', {}) as removal read it
    removal_todo,    \* keys of patched_items the for loop has not reached
    raw_files,       \* the Raw_CardDatabase_* / Raw_ClientLocalization_* files
    removal_pc       \* "off", "idle", "items", "log", "db", "done", "raised"

removalVars == <<patched_items, removal_todo, raw_files, removal_pc>>

(***************************************************************************)
(*   namesVars: update_card_names (unofficial_korean) on its connection    *)
(***************************************************************************)
VARIABLES
    names_pc,   \* "off", "idle", "cards", "ability", "done", "failed",
                \* "returned", "ability_failed"
    name_i,     \* index of the directive the for loop of line 334 is at
    work_en,    \* Localizations_enUS as the open connection sees it
    work_ko     \* Localizations_koKR as the open connection sees it

namesVars == <<names_pc, name_i, work_en, work_ko>>

(***************************************************************************)
(*   workerVars: PatchWorker.run                                           *)
(***************************************************************************)
VARIABLES
    worker_pc,       \* "off", "start", "removal", "localization", "images",
                     \* "names", "english", "except", "finally", "done"
    patch_options,   \* self.patch_options
    finished,        \* how many times self.finished was emitted
    spin             \* flips at every iteration of a while loop that makes no progress

workerVars == <<worker_pc, patch_options, finished, spin>>

(***************************************************************************)
(*   poolVars: download_images and its thread pool                         *)
(***************************************************************************)
VARIABLES
    art_id_to_url,          \* the argument: art id -> URL
    future,                 \* art id -> "queued", "running", "completed", "yielded"
    fetched,                \* art id -> the content _download returned, or None
    art_id_to_image_data,   \* the result map the main thread fills
    pool_pc                 \* "off", "submitted", "returned"

poolVars == <<art_id_to_url, future, fetched, art_id_to_image_data, pool_pc>>

(***************************************************************************)
(*   pageVars: fetch_all_sets_data and the search service                  *)
(***************************************************************************)
VARIABLES
    expansion_codes,     \* the argument, in iteration order
    page_count,          \* the service: search code -> number of result pages
    code_i,              \* index of the expansion code the outer loop is at
    search_left,         \* search codes of that expansion not yet queried
    json_data,           \* the page held: [search_code, page], page 0 for none
    set_cards_by_name,   \* normalized name -> card, of the expansion at hand
    all_sets_data,       \* expansion code -> set_cards_by_name
    page_pc              \* "off", "codes", "search", "page", "done"

pageVars ==
    <<expansion_codes, page_count, code_i, search_left, json_data,
      set_cards_by_name, all_sets_data, page_pc>>

(***************************************************************************)
(*   seekVars: patch_seek_keyword                                          *)
(***************************************************************************)
VARIABLES
    seek_pc,              \* "off", "idle", "rows", "done", "returned"
    ko_texts_to_process,  \* the keys of the fetched Korean rows, in order
    seek_i,               \* index of the row the for loop of line 1104 is at
    updates_ko,           \* the (final_text, loc_id, formatted) collected
    seek_writes           \* len(updates_ko) of every completed run, in order

seekVars == <<seek_pc, ko_texts_to_process, seek_i, updates_ko, seek_writes>>

\* the variable groups added last
(***************************************************************************)
(*   guiVars: PatcherWindow                                                *)
(***************************************************************************)
VARIABLES
    window,                    \* "none", "shown", "closing" (the timer of line 1457 runs), "closed"
    mistranslation_check,      \* [checked, enabled]
    image_check,               \* [checked, enabled]
    english_names_only_check,  \* [checked, enabled]
    remove_patch_check,        \* [checked, enabled]
    name_group,                \* [enabled, radio]: the group box and the radio button checked in it
    run_button,                \* [enabled, text]
    threads                    \* the QThreads started: [patch_options, st], st "running" or "finished"

guiVars == <<window, mistranslation_check, image_check, english_names_only_check,
             remove_patch_check, name_group, run_button, threads>>

tailVars == <<seekVars, guiVars>>

\* the variable groups of the network steps and the ones added last
sideVars == <<poolVars, pageVars, tailVars>>

\* the variables patch_seek_keyword leaves alone
seekOthers ==
    <<substVars, imageVars, resolveVars, removalVars, namesVars, workerVars,
      poolVars, pageVars, guiVars>>

guiOthers ==
    <<substVars, abilityVars, imageVars, resolveVars, removalVars, namesVars,
      workerVars, poolVars, pageVars, seekVars>>

\* the variable groups of the steps around the store and the ledger
laterVars == <<namesVars, workerVars, sideVars>>

\* the variables update_card_names and its callee leave alone
namesOthers ==
    <<substVars, imageVars, resolveVars, removalVars, workerVars, sideVars>>

vars == <<substVars, abilityVars, imageVars, resolveVars, removalVars, laterVars>>

\* the variables the substitution steps leave alone
substOthers == <<abilityVars, imageVars, resolveVars, removalVars, laterVars>>

\* the variables a call of update_ability_text leaves alone
abilityOthers == <<substVars, imageVars, resolveVars, removalVars, laterVars>>

\* the variables a run of run_image_change leaves alone
imageOthers == <<substVars, abilityVars, resolveVars, removalVars, laterVars>>

\* the variables the name resolution leaves alone
resolveOthers == <<substVars, abilityVars, imageVars, removalVars, laterVars>>

\* the variables run_patch_removal leaves alone, besides the ledger file and
\* the bundles
removalOthers == <<substVars, abilityVars, resolveVars, laterVars>>

NamesIdle ==
    /\ names_pc = "off"
    /\ name_i = 1
    /\ work_en = <<>>
    /\ work_ko = <<>>

WorkerIdle ==
    /\ worker_pc = "off"
    /\ patch_options = <<>>
    /\ finished = 0
    /\ spin = FALSE

PoolIdle ==
    /\ art_id_to_url = <<>>
    /\ future = <<>>
    /\ fetched = <<>>
    /\ art_id_to_image_data = <<>>
    /\ pool_pc = "off"

PageIdle ==
    /\ expansion_codes = <<>>
    /\ page_count = <<>>
    /\ code_i = 1
    /\ search_left = <<>>
    /\ json_data = [search_code |-> "", page |-> 0]
    /\ set_cards_by_name = <<>>
    /\ all_sets_data = <<>>
    /\ page_pc = "off"

SeekIdle ==
    /\ seek_pc = "off"
    /\ ko_texts_to_process = <<>>
    /\ seek_i = 1
    /\ updates_ko = <<>>
    /\ seek_writes = <<>>

GuiIdle ==
    /\ window = "none"
    /\ mistranslation_check = [checked |-> FALSE, enabled |-> FALSE]
    /\ image_check = [checked |-> FALSE, enabled |-> FALSE]
    /\ english_names_only_check = [checked |-> FALSE, enabled |-> FALSE]
    /\ remove_patch_check = [checked |-> FALSE, enabled |-> FALSE]
    /\ name_group = [enabled |-> FALSE, radio |-> "art_only"]
    /\ run_button = [enabled |-> FALSE, text |-> <<>>]
    /\ threads = <<>>

TailIdle == SeekIdle /\ GuiIdle

SideIdle == PoolIdle /\ PageIdle /\ TailIdle

LaterIdle == NamesIdle /\ WorkerIdle /\ SideIdle

SubstIdle ==
    /\ lang = "en"
    /\ card = <<>>
    /\ loc_text = <<>>
    /\ sorted_creature_types = <<>>
    /\ replace_map = <<>>
    /\ work_text = <<>>
    /\ protected_map = <<>>
    /\ phase = "off"
    /\ type_i = 1
    /\ pair_k = 1
    /\ start_index = 0
    /\ iters = 0
    /\ last_rep = [kind |-> "none"]
    /\ pass = 0

RemovalIdle ==
    /\ patched_items = <<>>
    /\ removal_todo = {}
    /\ raw_files = {}
    /\ removal_pc = "off"

ResolveIdle ==
    /\ card_rows = <<>>
    /\ en_names = <<>>
    /\ target_cards = <<>>
    /\ scryfall_data = <<>>
    /\ all_art_ids_to_fetch_url = <<>>
    /\ fetch_url = <<>>
    /\ not_found = {}
    /\ rpc = "off"

ImageIdle ==
    /\ patch_file = [state |-> "missing", ledger |-> <<>>]
    /\ patch_log = <<>>
    /\ log_shape = "object"
    /\ scryfall_url = <<>>
    /\ assets = <<>>
    /\ ipc = "off"
    /\ art_ids_to_download = <<>>
    /\ downloaded_images = <<>>
    /\ pending = {}
    /\ applied = {}
    /\ log_loaded = <<>>
    /\ image_runs = 0
    /\ prev = <<>>

AbilityIdle ==
    /\ enUS = <<>>
    /\ koKR = <<>>
    /\ translation_data = <<>>
    /\ only_english = FALSE
    /\ upc = "off"
    /\ card_i = 1
    /\ creature_types = <<>>
    /\ all_updates_en = <<>>
    /\ all_updates_ko = <<>>
    /\ runs = 0
    /\ enUS_start = <<>>
    /\ koKR_start = <<>>

(***************************************************************************)
(* Bounds and input sets of the substitution steps.                        *)
(***************************************************************************)
MaxEnLen == 3
MaxKoLen == 2
MaxIters == 4

SeqsUpTo(alphabet, n) == UNION { [1..k -> alphabet] : k \in 0..n }

EnAlphabet == {Chr.A, Chr.B, Chr.sp, Chr.d0}

KoAlphabet ==
    {Chr.na, Chr.gak, Chr.sp, Chr.eun, Chr.neun, Chr.i, Chr.ga, Chr.eul,
     Chr.reul, Chr.gwa, Chr.wa}

NoName == [nfc |-> <<>>, nfd |-> <<>>]

EnCard(origin, new) ==
    [origin_en_name |-> origin, new_en_name |-> new,
     origin_ko_name |-> NoName, new_ko_name |-> NoName]

KoCard(origin, new) ==
    [origin_en_name |-> <<>>, new_en_name |-> <<>>,
     origin_ko_name |-> [nfc |-> origin, nfd |-> formatting_for_2(origin)],
     new_ko_name |-> [nfc |-> new, nfd |-> formatting_for_2(new)]]

EnCards ==
    { EnCard(<<Chr.A>>, <<Chr.B>>),
      EnCard(<<Chr.B>>, <<Chr.A, Chr.B>>),
      EnCard(<<Chr.A, Chr.sp, Chr.B>>, <<Chr.B>>),
      EnCard(<<Chr.A, Chr.comma, Chr.B>>, <<Chr.B, Chr.comma, Chr.A>>),
      EnCard(<<Chr.sp, Chr.A>>, <<Chr.B>>),
      EnCard(<<Chr.A, Chr.sp, Chr.B>>, <<Chr.A, Chr.sp, Chr.A>>) }

EnTypeLists ==
    { <<>>,
      << <<Chr.A, Chr.B>> >>,
      << <<Chr.A, Chr.B>>, <<Chr.B, Chr.A>> >>,
      << <<Chr.B, Chr.A>>, <<Chr.A, Chr.B>> >>,
      << <<Chr.A, Chr.B>>, <<Chr.d0>> >> }

KoCards ==
    { KoCard(<<Chr.na>>, <<Chr.gak>>),
      KoCard(<<Chr.na>>, <<Chr.ga>>),
      KoCard(<<Chr.na>>, <<Chr.A>>),
      KoCard(<<Chr.na, Chr.sp, Chr.gak>>, <<Chr.ga, Chr.sp, Chr.gak>>),
      KoCard(<<Chr.na, Chr.sp>>, <<Chr.gak>>) }

KoTypeLists == { <<>>, << <<Chr.na, Chr.neun>> >> }

NoRep == [kind |-> "none"]

SubstStart(l, c, text, types, pairs, n) ==
    /\ lang = l
    /\ card = c
    /\ loc_text = text
    /\ sorted_creature_types = types
    /\ replace_map = pairs
    /\ work_text = text
    /\ protected_map = <<>>
    /\ phase = IF types = <<>> THEN "replace" ELSE "protect"
    /\ type_i = 1
    /\ pair_k = 1
    /\ start_index = 0
    /\ iters = 0
    /\ last_rep = NoRep
    /\ pass = n

SubstInit ==
    /\ AbilityIdle
    /\ ImageIdle
    /\ ResolveIdle
    /\ RemovalIdle
    /\ LaterIdle
    /\ \/ \E c \in EnCards, text \in SeqsUpTo(EnAlphabet, MaxEnLen),
          types \in EnTypeLists :
             SubstStart("en", c, text, types, Replacements(c).en, 1)
       \/ \E c \in KoCards, text \in SeqsUpTo(KoAlphabet, MaxKoLen),
             types \in KoTypeLists :
             SubstStart("ko", c, text, types, Replacements(c).ko_nfc, 1)

(***************************************************************************)
(* Steps of the substitution.                                              *)
(***************************************************************************)
\* lines 438-442 / 459-463: one creature type
ProtectNext ==
    /\ phase = "protect"
    /\ type_i <= Len(sorted_creature_types)
    /\ LET st == ProtectOne([work_text |-> work_text,
                             protected_map |-> protected_map],
                            sorted_creature_types[type_i], type_i)
       IN  /\ work_text' = st.work_text
           /\ protected_map' = st.protected_map
    /\ type_i' = type_i + 1
    /\ phase' = IF type_i = Len(sorted_creature_types) THEN "replace"
                ELSE "protect"
    /\ UNCHANGED <<lang, card, loc_text, sorted_creature_types, replace_map,
                   pair_k, start_index, iters, last_rep, pass>>
    /\ UNCHANGED substOthers

\* lines 444-445: one pair of the English branch
EnReplace ==
    /\ lang = "en"
    /\ phase = "replace"
    /\ pair_k <= Len(replace_map)
    /\ LET old == replace_map[pair_k][1]
           new == replace_map[pair_k][2]
       IN  /\ work_text' = Replace(work_text, old, new)
           /\ last_rep' = [kind |-> "en", old |-> old, new |-> new,
                           before |-> work_text,
                           after |-> Replace(work_text, old, new)]
    /\ pair_k' = pair_k + 1
    /\ UNCHANGED <<lang, card, loc_text, sorted_creature_types, replace_map,
                   protected_map, phase, type_i, start_index, iters, pass>>
    /\ UNCHANGED substOthers

\* lines 468-482: one iteration of the while loop that finds old
KoFindReplace ==
    /\ lang = "ko"
    /\ phase = "replace"
    /\ pair_k <= Len(replace_map)
    /\ start_index < Len(work_text)
    /\ iters < MaxIters
    /\ LET old == replace_map[pair_k][1]
           new == replace_map[pair_k][2]
           index == Find(work_text, old, start_index)
           r == KoIteration(work_text, index, old, new)
       IN  /\ index # -1
           /\ work_text' = r.text
           /\ phase' = IF r.st = "ok" THEN "replace" ELSE "raised"
           /\ start_index' = index + Len(new)
           /\ last_rep' = [kind |-> "ko", st |-> r.st, old |-> old, new |-> new,
                           index |-> index, josa_index |-> index + Len(new),
                           before |-> work_text,
                           spliced |-> Splice(work_text, index, old, new),
                           after |-> r.text]
    /\ iters' = iters + 1
    /\ UNCHANGED <<lang, card, loc_text, sorted_creature_types, replace_map,
                   protected_map, type_i, pair_k, pass>>
    /\ UNCHANGED substOthers

\* lines 468-470: the while loop ends (condition false, or find returns -1)
KoNextPair ==
    /\ lang = "ko"
    /\ phase = "replace"
    /\ pair_k <= Len(replace_map)
    /\ \/ ~(start_index < Len(work_text))
       \/ Find(work_text, replace_map[pair_k][1], start_index) = -1
    /\ pair_k' = pair_k + 1
    /\ start_index' = 0
    /\ iters' = 0
    /\ UNCHANGED <<lang, card, loc_text, sorted_creature_types, replace_map,
                   work_text, protected_map, phase, type_i, last_rep, pass>>
    /\ UNCHANGED substOthers

\* lines 447-448 / 484-485
RestoreAll ==
    /\ phase = "replace"
    /\ pair_k > Len(replace_map)
    /\ work_text' = Restore(work_text, protected_map)
    /\ phase' = "done"
    /\ UNCHANGED <<lang, card, loc_text, sorted_creature_types, replace_map,
                   protected_map, type_i, pair_k, start_index, iters, last_rep,
                   pass>>
    /\ UNCHANGED substOthers

\* the protect / replace / restore steps again on the text just produced,
\* with the same protect terms and no replacement pairs
Resubmit ==
    /\ phase = "done"
    /\ pass = 1
    /\ loc_text' = work_text
    /\ replace_map' = <<>>
    /\ protected_map' = <<>>
    /\ phase' = IF sorted_creature_types = <<>> THEN "replace" ELSE "protect"
    /\ type_i' = 1
    /\ pair_k' = 1
    /\ start_index' = 0
    /\ iters' = 0
    /\ last_rep' = NoRep
    /\ pass' = 2
    /\ UNCHANGED <<lang, card, sorted_creature_types, work_text>>
    /\ UNCHANGED substOthers

SubstNext ==
    \/ ProtectNext
    \/ EnReplace
    \/ KoFindReplace
    \/ KoNextPair
    \/ RestoreAll
    \/ Resubmit

SpecSubst == SubstInit /\ [][SubstNext]_vars

(***************************************************************************)
(* Properties of the substitution steps (checked under SpecSubst).         *)
(***************************************************************************)
\* the number of places where p occurs in s (overlapping places included)
CountOcc(p, s) ==
    Cardinality({ i \in 0..(Len(s) - Len(p)) : StartsAt(s, p, i) })

LengthPreserving(pairs) ==
    \A k \in 1..Len(pairs) : Len(pairs[k][1]) = Len(pairs[k][2])

FirstPassDone == phase = "done" /\ pass = 1

\* C1: protection invariant.  When the substitution of a record is done, every
\* protected term occurs in the output at least as often as in the input
\* (each input occurrence is still there), and at the very same index when no
\* pair changes the length of the text.
C1_ProtectedTermsKept ==
    FirstPassDone =>
        \A k \in 1..Len(sorted_creature_types) :
            LET p == sorted_creature_types[k]
            IN  /\ CountOcc(p, work_text) >= CountOcc(p, loc_text)
                /\ LengthPreserving(replace_map) =>
                       \A i \in 0..Len(loc_text) :
                           StartsAt(loc_text, p, i) => StartsAt(work_text, p, i)

\* C9: idempotence of substitution.  The protect / replace / restore steps run
\* again on the output with the same protect terms and no pairs return it
\* unchanged.
C9_ResubmitIsNoOp ==
    (phase = "done" /\ pass = 2) => work_text = loc_text

\* C10: a replacement pair whose old string is empty changes nothing: the step
\* that applies it leaves the text as it was.
C10_EmptyOldIsNoOp ==
    (last_rep.kind # "none" /\ last_rep.old = <<>>) =>
        last_rep.after = last_rep.before

AfterConsonantForms == {51008, 51060, 51012, 44284}   \* 은 이 을 과
AfterVowelForms == {45716, 44032, 47484, 50752}       \* 는 가 를 와
Particles == AfterConsonantForms \cup AfterVowelForms

\* the two forms of one particle
SameParticle(a, b) ==
    \E pr \in { {51008, 45716}, {51060, 44032}, {51012, 47484}, {44284, 50752} } :
        a \in pr /\ b \in pr

\* a Hangul syllable block without a trailing consonant
EndsInVowelBlock(name) ==
    LET c == name[Len(name)]
    IN  c >= 44032 /\ c <= 55203 /\ (c - 44032) % 28 = 0

KoStepDone == last_rep.kind = "ko" /\ last_rep.st = "ok"

\* the character right after the inserted name, before and after the repair
JosaBefore == last_rep.spliced[last_rep.josa_index + 1]
JosaAfter == last_rep.after[last_rep.josa_index + 1]

ParticleFollows ==
    /\ KoStepDone
    /\ last_rep.josa_index < Len(last_rep.spliced)
    /\ JosaBefore \in Particles

\* C6: particle correctness.  After a Korean replacement followed by one of the
\* eight particle characters, the text carries the same particle in its
\* after-vowel form when the inserted name ends in a syllable block without a
\* trailing consonant, and in its after-consonant form otherwise (a block with a
\* trailing consonant, or a character outside the block range).
C6_ParticleCorrect ==
    ParticleFollows =>
        /\ SameParticle(JosaBefore, JosaAfter)
        /\ IF EndsInVowelBlock(last_rep.new)
           THEN JosaAfter \in AfterVowelForms
           ELSE JosaAfter \in AfterConsonantForms

C6_Witness ==
    /\ ParticleFollows
    /\ JosaAfter # JosaBefore
    /\ EndsInVowelBlock(last_rep.new)

\* C7: particle repair is idempotent.  The repair applied again at the same
\* insertion end to the text it produced returns that text unchanged.
C7_RepairIdempotent ==
    KoStepDone =>
        RepairJosa(last_rep.after, last_rep.josa_index, last_rep.new)
            = Ok(last_rep.after)

C7_Witness ==
    /\ ParticleFollows
    /\ last_rep.after # last_rep.spliced
    /\ ~EndsInVowelBlock(last_rep.new)

(***************************************************************************)
(* update_ability_text on the store.                                       *)
(*                                                                         *)
(* The tables the call only reads: Cards / Abilities (which text ids a     *)
(* titleId links to) and Enums (which LocIds name a SubType).              *)
(***************************************************************************)
\* text ids reached from "SELECT AbilityIds, HiddenAbilityIds FROM Cards WHERE
\* titleId = ?" and the Abilities lookup; a titleId outside the domain has no
\* Cards row
TextIdsOf == (1 :> {10}) @@ (3 :> {})

\* "SELECT LocId FROM Enums WHERE Type = 'SubType'"
SubTypeLocIds == {20}

LocIdOf(key) == key[1]
FormattedOf(key) == key[2]

KeyBefore(a, b) == a[1] < b[1] \/ (a[1] = b[1] /\ a[2] < b[2])

RECURSIVE KeysInOrder(_)
\* the rows of a SELECT, in key order
KeysInOrder(keys) ==
    IF keys = {} THEN <<>>
    ELSE LET first == CHOOSE a \in keys : \A b \in keys \ {a} : KeyBefore(a, b)
         IN  <<first>> \o KeysInOrder(keys \ {first})

RowsOf(store, loc_ids) ==
    KeysInOrder({ key \in DOMAIN store : LocIdOf(key) \in loc_ids })

\* the orders sorted(list(a_set), key=len, reverse=True) can produce: the
\* iteration order of a set decides between terms of equal length
LongestFirst(terms) ==
    { q \in [1..Cardinality(terms) -> terms] :
        /\ \A a, b \in 1..Cardinality(terms) : a # b => q[a] # q[b]
        /\ \A a, b \in 1..Cardinality(terms) : a < b => Len(q[a]) >= Len(q[b]) }

\* lines 370-394: the protect terms of each language
CreatureTypes(en, ko, english_only) ==
    [ en |-> { en[key] : key \in { k \in DOMAIN en : LocIdOf(k) \in SubTypeLocIds } },
      ko_nfc |-> IF english_only THEN {}
                 ELSE { ko[key] : key \in { k \in DOMAIN ko :
                            LocIdOf(k) \in SubTypeLocIds /\ FormattedOf(k) # 2 } },
      ko_nfd |-> IF english_only THEN {}
                 ELSE { ko[key] : key \in { k \in DOMAIN ko :
                            LocIdOf(k) \in SubTypeLocIds /\ FormattedOf(k) = 2 } } ]

\* lines 397-431: does the for loop reach the substitution for this directive
Resolves(c) ==
    /\ c.titleId # 0
    /\ c.titleId \in DOMAIN TextIdsOf
    /\ TextIdsOf[c.titleId] # {}

RECURSIVE EnUpdates(_, _, _, _, _)
\* lines 434-450: the English rows of one directive, row k onward
EnUpdates(store, rows, k, types, pairs) ==
    IF k > Len(rows) THEN <<>>
    ELSE LET r == SubstituteEn(store[rows[k]], types, pairs)
         IN  (IF r.text # store[rows[k]]
              THEN << <<r.text, LocIdOf(rows[k])>> >> ELSE <<>>)
             \o EnUpdates(store, rows, k + 1, types, pairs)

\* lines 455-485 for one Korean row
KoRow(store, key, types, reps) ==
    SubstituteKo(store[key],
                 IF FormattedOf(key) = 2 THEN types.ko_nfd ELSE types.ko_nfc,
                 IF FormattedOf(key) = 2 THEN reps.ko_nfd ELSE reps.ko_nfc)

RECURSIVE KoUpdates(_, _, _, _, _)
\* lines 453-487: the Korean rows of one directive, row k onward; the result
\* is [st, ups]
KoUpdates(store, rows, k, types, reps) ==
    IF k > Len(rows) THEN [st |-> "ok", ups |-> <<>>]
    ELSE LET r == KoRow(store, rows[k], types, reps)
         IN  IF r.st # "ok" THEN [st |-> r.st, ups |-> <<>>]
             ELSE LET rest == KoUpdates(store, rows, k + 1, types, reps)
                  IN  [st |-> rest.st,
                       ups |-> (IF r.text # store[rows[k]]
                                THEN << <<r.text, LocIdOf(rows[k]),
                                          FormattedOf(rows[k])>> >>
                                ELSE <<>>) \o rest.ups]

\* "UPDATE Localizations_enUS SET Loc = ? WHERE LocId = ?" for one parameter row
UpdateEn(store, up) ==
    [key \in DOMAIN store |-> IF LocIdOf(key) = up[2] THEN up[1] ELSE store[key]]

\* "UPDATE Localizations_koKR SET Loc = ? WHERE LocId = ? AND Formatted = ?"
UpdateKo(store, up) ==
    [key \in DOMAIN store |->
        IF LocIdOf(key) = up[2] /\ FormattedOf(key) = up[3] THEN up[1]
        ELSE store[key]]

RECURSIVE ExecuteManyEn(_, _, _)
ExecuteManyEn(store, ups, k) ==
    IF k > Len(ups) THEN store
    ELSE ExecuteManyEn(UpdateEn(store, ups[k]), ups, k + 1)

RECURSIVE ExecuteManyKo(_, _, _)
ExecuteManyKo(store, ups, k) ==
    IF k > Len(ups) THEN store
    ELSE ExecuteManyKo(UpdateKo(store, ups[k]), ups, k + 1)

MaxRuns == 2

\* lines 361-394: connect, read the protect terms
\* (a call that follows a committed call is the next run's; line 350 calls once)
UA_Begin ==
    /\ upc = "idle" \/ (upc = "done" /\ names_pc = "off")
    /\ runs < MaxRuns
    /\ upc' = "cards"
    /\ card_i' = 1
    /\ all_updates_en' = <<>>
    /\ all_updates_ko' = <<>>
    /\ \E en \in LongestFirst(CreatureTypes(enUS, koKR, only_english).en),
          nfc \in LongestFirst(CreatureTypes(enUS, koKR, only_english).ko_nfc),
          nfd \in LongestFirst(CreatureTypes(enUS, koKR, only_english).ko_nfd) :
          creature_types' = [en |-> en, ko_nfc |-> nfc, ko_nfd |-> nfd]
    /\ enUS_start' = enUS
    /\ koKR_start' = koKR
    /\ UNCHANGED <<enUS, koKR, translation_data, only_english, runs>>
    /\ UNCHANGED abilityOthers

\* lines 397-398, 417-418, 430-431: a directive the loop skips
UA_SkipCard ==
    /\ upc = "cards"
    /\ card_i <= Len(translation_data)
    /\ ~Resolves(translation_data[card_i])
    /\ card_i' = card_i + 1
    /\ UNCHANGED <<enUS, koKR, translation_data, only_english, upc,
                   creature_types, all_updates_en, all_updates_ko, runs,
                   enUS_start, koKR_start>>
    /\ UNCHANGED abilityOthers

\* lines 396-487: one directive, every row it links to
UA_Card ==
    /\ upc = "cards"
    /\ card_i <= Len(translation_data)
    /\ Resolves(translation_data[card_i])
    /\ LET c == translation_data[card_i]
           reps == Replacements(c)
           ids == TextIdsOf[c.titleId]
           en == EnUpdates(enUS, RowsOf(enUS, ids), 1, creature_types.en, reps.en)
           ko == IF only_english THEN [st |-> "ok", ups |-> <<>>]
                 ELSE KoUpdates(koKR, RowsOf(koKR, ids), 1, creature_types, reps)
       IN  /\ all_updates_en' = all_updates_en \o en
           /\ all_updates_ko' = IF ko.st = "ok" THEN all_updates_ko \o ko.ups
                                ELSE all_updates_ko
           /\ upc' = IF ko.st = "ok" THEN "cards"
                     ELSE IF ko.st = "hang" THEN "hung" ELSE "failed"
           /\ card_i' = IF ko.st = "ok" THEN card_i + 1 ELSE card_i
    /\ UNCHANGED <<enUS, koKR, translation_data, only_english, creature_types,
                   runs, enUS_start, koKR_start>>
    /\ UNCHANGED abilityOthers

\* a faulty connection: what was executed stays, committed or not
AfterClose_Autocommit(store, written, committed) == written

\* conn.close() (line 494): a table as the next connection sees it; what was
\* executed and not committed is rolled back
AfterClose(store, written, committed) ==
    IF committed THEN written ELSE store

\* how lines 488-490 can end: the commit, or sqlite3.Error raised by the first
\* or the second executemany
WriteOutcomes == {"committed", "en_error", "ko_error"}

\* lines 488-494: the two executemany, the commit, the close
UA_Commit ==
    /\ upc = "cards"
    /\ card_i > Len(translation_data)
    /\ \E outcome \in WriteOutcomes :
          LET en_written == IF outcome = "en_error" THEN enUS
                            ELSE ExecuteManyEn(enUS, all_updates_en, 1)
              ko_written == IF only_english \/ outcome # "committed" THEN koKR
                            ELSE ExecuteManyKo(koKR, all_updates_ko, 1)
          IN  /\ enUS' = AfterClose(enUS, en_written, outcome = "committed")
              /\ koKR' = AfterClose(koKR, ko_written, outcome = "committed")
              /\ upc' = IF outcome = "committed" THEN "done" ELSE "failed_write"
              /\ runs' = IF outcome = "committed" THEN runs + 1 ELSE runs
    /\ UNCHANGED <<translation_data, only_english, card_i, creature_types,
                   all_updates_en, all_updates_ko, enUS_start, koKR_start>>
    /\ UNCHANGED abilityOthers

\* lines 417-453 raising sqlite3.Error at a directive: caught at line 491,
\* nothing was executed, the connection is closed
UA_DbError ==
    /\ upc = "cards"
    /\ card_i <= Len(translation_data)
    /\ upc' = "failed"
    /\ enUS' = AfterClose(enUS, enUS, FALSE)
    /\ koKR' = AfterClose(koKR, koKR, FALSE)
    /\ UNCHANGED <<translation_data, only_english, card_i, creature_types,
                   all_updates_en, all_updates_ko, runs, enUS_start, koKR_start>>
    /\ UNCHANGED abilityOthers

AbilityNext ==
    \/ UA_Begin
    \/ UA_SkipCard
    \/ UA_Card
    \/ UA_Commit
    \/ UA_DbError

(***************************************************************************)
(* Bounds and input sets of the store.                                     *)
(***************************************************************************)
MaxStoreLen == 2
MaxCards == 2

AbCard(title_id, origin_en, new_en, origin_ko, new_ko) ==
    [titleId |-> title_id,
     origin_en_name |-> origin_en, new_en_name |-> new_en,
     origin_ko_name |-> [nfc |-> origin_ko, nfd |-> formatting_for_2(origin_ko)],
     new_ko_name |-> [nfc |-> new_ko, nfd |-> formatting_for_2(new_ko)]]

AbCards ==
    { AbCard(1, <<Chr.A>>, <<Chr.B>>, <<Chr.na>>, <<Chr.gak>>),
      AbCard(1, <<Chr.B>>, <<Chr.A, Chr.B>>,
             <<Chr.na, Chr.sp, Chr.gak>>, <<Chr.ga, Chr.sp, Chr.gak>>),
      AbCard(1, <<Chr.A>>, <<Chr.B>>, <<Chr.na, Chr.sp>>, <<Chr.gak>>),
      AbCard(0, <<Chr.A>>, <<Chr.B>>, <<Chr.na>>, <<Chr.gak>>),
      AbCard(2, <<Chr.A>>, <<Chr.B>>, <<Chr.na>>, <<Chr.gak>>) }

AbEnAlphabet == {Chr.A, Chr.B}
AbKoAlphabet == {Chr.na, Chr.gak, Chr.neun}

\* the rows of the SubType names (English; Korean in both forms), or none
SubTypeRows ==
    { [en |-> <<>>, ko |-> <<>>],
      [en |-> (<<20, 0>> :> <<Chr.A, Chr.B>>),
       ko |-> (<<20, 0>> :> <<Chr.na, Chr.neun>>)
                @@ (<<20, 2>> :> formatting_for_2(<<Chr.na, Chr.neun>>))] }

\* the ability text 10: two formatting variants in each table, the Korean
\* Formatted = 2 row holding the decomposed form of the Formatted = 0 row
EnRows(e, e1) == (<<10, 0>> :> e) @@ (<<10, 1>> :> e1)
KoRows(k) == (<<10, 0>> :> k) @@ (<<10, 2>> :> formatting_for_2(k))

AbilityStart(en, ko, data, english_only) ==
    /\ enUS = en
    /\ koKR = ko
    /\ translation_data = data
    /\ only_english = english_only
    /\ upc = "idle"
    /\ card_i = 1
    /\ creature_types = <<>>
    /\ all_updates_en = <<>>
    /\ all_updates_ko = <<>>
    /\ runs = 0
    /\ enUS_start = en
    /\ koKR_start = ko

AbilityInit ==
    /\ SubstIdle
    /\ ImageIdle
    /\ ResolveIdle
    /\ RemovalIdle
    /\ LaterIdle
    /\ \E data \in SeqsUpTo(AbCards, MaxCards) \ {<<>>}, sub \in SubTypeRows :
          \/ \E e \in SeqsUpTo(AbEnAlphabet, MaxStoreLen) :
                \E v \in { [e1 |-> e, english_only |-> FALSE],
                            [e1 |-> <<Chr.A>> \o e, english_only |-> FALSE],
                            [e1 |-> e, english_only |-> TRUE] } :
                   AbilityStart(EnRows(e, v.e1) @@ sub.en,
                                KoRows(<<Chr.na, Chr.neun>>) @@ sub.ko,
                                data, v.english_only)
          \/ \E k \in SeqsUpTo(AbKoAlphabet, MaxStoreLen) :
                AbilityStart(EnRows(<<Chr.A>>, <<Chr.A>>) @@ sub.en,
                             KoRows(k) @@ sub.ko, data, FALSE)

SpecAbility == AbilityInit /\ [][AbilityNext]_vars

(***************************************************************************)
(* Properties of update_ability_text on the store (under SpecAbility).     *)
(***************************************************************************)
\* C2: repeated application converges.  A call that follows a committed call
\* with the same directive list commits a store equal to the one it began
\* with.
C2_SecondRunChangesNothing ==
    (upc = "done" /\ runs >= 2) => (enUS = enUS_start /\ koKR = koKR_start)

DirectiveIsNormalized(c) ==
    /\ c.origin_ko_name.nfd = formatting_for_2(c.origin_ko_name.nfc)
    /\ c.new_ko_name.nfd = formatting_for_2(c.new_ko_name.nfc)

\* C8: round-trip normalization.  After the first call's commit, every key
\* whose Formatted = 2 text was the decomposition of its Formatted = 0 text
\* before the call still has that relation between the two texts.
C8_DecomposedFollowsPrimary ==
    (upc = "done" /\ runs = 1
        /\ \A k \in 1..Len(translation_data) :
              DirectiveIsNormalized(translation_data[k])) =>
        \A key \in DOMAIN koKR :
            (/\ FormattedOf(key) = 0
             /\ <<LocIdOf(key), 2>> \in DOMAIN koKR
             /\ koKR_start[<<LocIdOf(key), 2>>] = formatting_for_2(koKR_start[key]))
            => koKR[<<LocIdOf(key), 2>>] = formatting_for_2(koKR[key])

\* the call ended in the except branch of line 491
CallFailed == upc \in {"failed", "failed_write"}

\* C15: a call of update_ability_text that fails before its commit, while
\* resolving or while writing, leaves every record of Localizations_enUS and
\* of Localizations_koKR at its value before the call.
C15_FailureLeavesStore ==
    CallFailed => (enUS = enUS_start /\ koKR = koKR_start)

\* C15 witness: the second executemany or the first raised with updates
\* pending that change the English table.
C15_Witness ==
    /\ upc = "failed_write"
    /\ all_updates_en # <<>>
    /\ ExecuteManyEn(enUS_start, all_updates_en, 1) # enUS_start

\* C16: commits are per directive.  When a later directive fails, the text
\* changes produced for the directives before it in the same call are in the
\* store.
C16_EarlierDirectivesCommitted ==
    (upc = "failed" /\ card_i > 1) =>
        /\ enUS = ExecuteManyEn(enUS_start, all_updates_en, 1)
        /\ only_english \/ koKR = ExecuteManyKo(koKR_start, all_updates_ko, 1)

(***************************************************************************)
(*                 run_image_change: the patch ledger                      *)
(***************************************************************************)

\* sleeve_data_map: the art ids that are sleeves, with their bucket ids
sleeve_data_map ==
    (461218 :> [bucket_id |-> "Textures_Bucket_Card.Sleeve_1096"])

\* the art_crop URLs of the catalog; NoUrl is a name the catalog lacks
Urls == {"u1", "u2"}
NoUrl == "none"

\* f"sleeve_{art_id}" if is_sleeve else str(art_id)
SleevePrefix == <<115, 108, 101, 101, 118, 101, 95>>
LogKeyOf(art_id, is_sleeve) ==
    IF is_sleeve THEN SleevePrefix \o Digits(art_id) ELSE Digits(art_id)

\* the two shapes of a ledger entry: a bare URL, or {"url":, "bucket_id":}
StrEntry(url) == [shape |-> "str", url |-> url]
DictEntry(url, bucket_id) == [shape |-> "dict", url |-> url, bucket_id |-> bucket_id]

\* the art ids run_image_change treats as sleeves
is_sleeve_of(art_id) == art_id \in DOMAIN sleeve_data_map

\* a faulty gate: it compares every entry as a bare URL
is_patched_BareUrlOnly(plog, art_id, is_sleeve, url) ==
    LET log_key == LogKeyOf(art_id, is_sleeve) IN
    log_key \in DOMAIN plog /\ plog[log_key] = StrEntry(url)

\* the gate: is the resource recorded as patched with this very URL
is_patched_with_same_url(plog, art_id, is_sleeve, url) ==
    LET log_key == LogKeyOf(art_id, is_sleeve) IN
    IF log_key \notin DOMAIN plog THEN FALSE
    ELSE LET log_entry == plog[log_key] IN
         IF is_sleeve /\ log_entry.shape = "dict" /\ log_entry.url = url THEN TRUE
         ELSE IF ~is_sleeve /\ log_entry = StrEntry(url) THEN TRUE
         ELSE FALSE

\* a faulty load: every run starts from an empty ledger
LoadLedger_Fresh(file) == <<>>

\* json.load of patch_log.json, {} when it is missing or unreadable
LoadLedger(file) ==
    IF file.state \in {"missing", "corrupt"} THEN <<>> ELSE file.ledger

\* a faulty record: the entry is written whatever replace_* returned
Recorded_Always(plog, key, entry, success) == (key :> entry) @@ plog

\* patch_log['patched_images'][key] = entry, only after success
Recorded(plog, key, entry, success) ==
    IF success THEN (key :> entry) @@ plog ELSE plog

\* art_ids_to_download: resolved art ids the gate does not hold back
SelectDownloads(plog, urls) ==
    LET chosen == {a \in DOMAIN urls :
                      /\ urls[a] # NoUrl
                      /\ ~is_patched_with_same_url(plog, a, is_sleeve_of(a), urls[a])}
    IN [a \in chosen |-> urls[a]]

\* what replace_card_art / replace_sleeve_art can return for a bundle
ReplaceOutcomes(bundle) ==
    IF bundle = "absent" THEN {"no_bundle"}
    ELSE {"ok", "no_texture", "error"}

\* the bundle after the call: rewritten, untouched, or cut short by the error
BundleAfter(bundle, outcome, image) ==
    CASE outcome = "ok" -> {image}
      [] outcome = "error" -> {bundle, "damaged"}
      [] OTHER -> {bundle}

\* open(..., encoding='utf-8') / json.load raise what line 665 does not catch
LoadRaises(file) == file.state = "undecodable"

\* what json.load returned: an object with an object (or nothing) under
\* 'patched_images', something that is no object, or an object whose
\* 'patched_images' is no object
ShapeOf(file) ==
    IF file.state \in {"not_object", "bad_table"} THEN file.state ELSE "object"

\* line 720: .get on a value that is no dict raises AttributeError; the line
\* is reached for the first art id whose URL resolved
GateRaises(shape, urls) ==
    shape # "object" /\ \E a \in DOMAIN urls : urls[a] # NoUrl

\* runs of run_image_change the model follows
MaxImageRuns == 2

\* lines 659-667: read the ledger
RIC_Load ==
    /\ ipc = "idle"
    /\ image_runs < MaxImageRuns
    /\ patch_log' = LoadLedger(patch_file)
    /\ log_loaded' = LoadLedger(patch_file)
    /\ log_shape' = ShapeOf(patch_file)
    /\ art_ids_to_download' = <<>>
    /\ downloaded_images' = <<>>
    /\ pending' = {}
    /\ applied' = {}
    /\ ipc' = IF LoadRaises(patch_file) THEN "raised" ELSE "loaded"
    /\ UNCHANGED <<patch_file, scryfall_url, assets, image_runs, prev>>
    /\ UNCHANGED imageOthers

\* lines 707-732: resolve the URLs and apply the gate
RIC_Select ==
    /\ ipc = "loaded"
    /\ IF GateRaises(log_shape, scryfall_url)
       THEN /\ ipc' = "raised"
            /\ UNCHANGED art_ids_to_download
       ELSE /\ art_ids_to_download' = SelectDownloads(patch_log, scryfall_url)
            /\ ipc' = "selected"
    /\ UNCHANGED <<patch_file, patch_log, log_shape, scryfall_url, assets,
                   downloaded_images, pending, applied, log_loaded, image_runs, prev>>
    /\ UNCHANGED imageOthers

\* lines 735-739: download_images keeps the art ids whose content arrived
RIC_Download ==
    /\ ipc = "selected"
    /\ \E got \in SUBSET (DOMAIN art_ids_to_download) :
          /\ downloaded_images' = [a \in got |-> art_ids_to_download[a]]
          /\ pending' = got
    /\ ipc' = "patching"
    /\ UNCHANGED <<patch_file, patch_log, log_shape, scryfall_url, assets,
                   art_ids_to_download, applied, log_loaded, image_runs, prev>>
    /\ UNCHANGED imageOthers

\* lines 747-759: one turn of the sleeve loop
RIC_PatchSleeve ==
    /\ ipc = "patching"
    /\ \E art_id \in pending :
          /\ is_sleeve_of(art_id)
          /\ \A b \in pending : is_sleeve_of(b) => art_id <= b
          /\ \E outcome \in ReplaceOutcomes(assets[art_id]) :
             \E bundle \in BundleAfter(assets[art_id], outcome, downloaded_images[art_id]) :
                /\ assets' = [assets EXCEPT ![art_id] = bundle]
                /\ patch_log' =
                       Recorded(patch_log, LogKeyOf(art_id, TRUE),
                                DictEntry(art_ids_to_download[art_id],
                                          sleeve_data_map[art_id].bucket_id),
                                outcome = "ok")
                /\ applied' = IF outcome = "ok" THEN applied \cup {art_id} ELSE applied
          /\ pending' = pending \ {art_id}
    /\ UNCHANGED <<patch_file, log_shape, scryfall_url, ipc, art_ids_to_download,
                   downloaded_images, log_loaded, image_runs, prev>>
    /\ UNCHANGED imageOthers

\* lines 766-780: one turn of the card loop, after the sleeve loop
RIC_PatchCard ==
    /\ ipc = "patching"
    /\ \A b \in pending : ~is_sleeve_of(b)
    /\ \E art_id \in pending :
          /\ \E outcome \in ReplaceOutcomes(assets[art_id]) :
             \E bundle \in BundleAfter(assets[art_id], outcome, downloaded_images[art_id]) :
                /\ assets' = [assets EXCEPT ![art_id] = bundle]
                /\ patch_log' =
                       Recorded(patch_log, LogKeyOf(art_id, FALSE),
                                StrEntry(art_ids_to_download[art_id]),
                                outcome = "ok")
                /\ applied' = IF outcome = "ok" THEN applied \cup {art_id} ELSE applied
          /\ pending' = pending \ {art_id}
    /\ UNCHANGED <<patch_file, log_shape, scryfall_url, ipc, art_ids_to_download,
                   downloaded_images, log_loaded, image_runs, prev>>
    /\ UNCHANGED imageOthers

\* patch_log.json after json.dump: written, not opened, or cut short
SaveOutcomes == {"saved", "unopened", "truncated"}
FileAfterSave(file, plog, outcome) ==
    CASE outcome = "saved" -> [state |-> "json", ledger |-> plog]
      [] outcome = "truncated" -> [state |-> "corrupt", ledger |-> <<>>]
      [] OTHER -> file

\* lines 789-793: save the ledger; an IOError is only logged
RIC_Save ==
    /\ ipc = "patching"
    /\ pending = {}
    /\ \E outcome \in SaveOutcomes :
          /\ patch_file' =
                 IF log_shape = "object" \/ outcome # "saved"
                 THEN FileAfterSave(patch_file, patch_log, outcome)
                 ELSE patch_file
          /\ prev' = [selected |-> DOMAIN art_ids_to_download,
                      recorded |-> applied,
                      saved |-> (outcome = "saved")]
    /\ image_runs' = image_runs + 1
    /\ ipc' = "idle"
    /\ UNCHANGED <<patch_log, log_shape, scryfall_url, assets, art_ids_to_download,
                   downloaded_images, pending, applied, log_loaded>>
    /\ UNCHANGED imageOthers

ImageNext ==
    \/ RIC_Load
    \/ RIC_Select
    \/ RIC_Download
    \/ RIC_PatchSleeve
    \/ RIC_PatchCard
    \/ RIC_Save

(***************************************************************************)
(*   SpecImage: the ledger a previous version or run left, a catalog       *)
(*   and the bundles on disk.                                              *)
(***************************************************************************)
CardArtIds == {7, 8}
ArtIds == CardArtIds \cup DOMAIN sleeve_data_map

\* the ledgers patch_log.json may hold at the start
StartLedgers ==
    { <<>>,
      (LogKeyOf(7, FALSE) :> StrEntry("u1")),
      (LogKeyOf(7, FALSE) :> StrEntry("u2")) @@
          (LogKeyOf(461218, TRUE) :> DictEntry("u1", sleeve_data_map[461218].bucket_id)),
      (LogKeyOf(7, FALSE) :> DictEntry("u1", "b")) @@
          (LogKeyOf(461218, TRUE) :> StrEntry("u1")) @@
          (LogKeyOf(461218, FALSE) :> StrEntry("u1")) }

StartFiles ==
    { [state |-> "missing", ledger |-> <<>>], [state |-> "corrupt", ledger |-> <<>>] }
        \cup { [state |-> "json", ledger |-> l] : l \in StartLedgers }

\* what the catalog resolves each target art id to
Catalogs ==
    { (7 :> "u1") @@ (8 :> "u1") @@ (461218 :> "u1"),
      (7 :> "u1") @@ (8 :> "u2") @@ (461218 :> "u2"),
      (7 :> "u2") @@ (8 :> NoUrl) @@ (461218 :> "u1"),
      (7 :> "u1") @@ (461218 :> NoUrl) }

\* the bundles on disk
StartAssets ==
    { [a \in ArtIds |-> "original"],
      [a \in ArtIds |-> IF a = 8 THEN "absent" ELSE "original"] }

ImageInit ==
    /\ SubstIdle
    /\ AbilityIdle
    /\ ResolveIdle
    /\ RemovalIdle
    /\ LaterIdle
    /\ patch_file \in StartFiles
    /\ scryfall_url \in Catalogs
    /\ assets \in StartAssets
    /\ patch_log = <<>>
    /\ log_shape = "object"
    /\ ipc = "idle"
    /\ art_ids_to_download = <<>>
    /\ downloaded_images = <<>>
    /\ pending = {}
    /\ applied = {}
    /\ log_loaded = <<>>
    /\ image_runs = 0
    /\ prev = [selected |-> {}, recorded |-> {}, saved |-> FALSE]

SpecImage == ImageInit /\ [][ImageNext]_vars

(***************************************************************************)
(*                    Properties of the patch ledger                       *)
(***************************************************************************)
\* the URL this run asked for the art id
RefOf(art_id) == art_ids_to_download[art_id]

\* the ledger entry under a key, or a record standing for "no entry"
EntryAt(plog, key) == IF key \in DOMAIN plog THEN plog[key] ELSE [shape |-> "none"]

\* the key run_image_change uses for the art id
OwnKey(art_id) == LogKeyOf(art_id, is_sleeve_of(art_id))

\* C3: ledger gating.  Once an entry is recorded for an art id with URL ref,
\* the gate reports "already applied" for that art id and ref and "must
\* apply" for the same art id with any other ref, for cards and sleeves alike.
C3_GateAfterRecord ==
    \A a \in applied :
        /\ is_patched_with_same_url(patch_log, a, is_sleeve_of(a), RefOf(a))
        /\ \A u \in Urls \ {RefOf(a)} :
              ~is_patched_with_same_url(patch_log, a, is_sleeve_of(a), u)

C3_Witness ==
    /\ \E a \in applied : is_sleeve_of(a) /\ OwnKey(a) \in DOMAIN log_loaded
    /\ \E a \in applied : ~is_sleeve_of(a)

\* C4: an entry is created or overwritten only after replace_* returned
\* success for that resource with the image fetched from the entry's URL in
\* this run; a resource whose download or replacement failed keeps the entry
\* (or the absence of one) the run loaded.
C4_RecordOnlyAfterSuccess ==
    /\ \A key \in DOMAIN patch_log \cup DOMAIN log_loaded :
          EntryAt(patch_log, key) # EntryAt(log_loaded, key) =>
              \E a \in applied :
                  /\ key = OwnKey(a)
                  /\ a \in DOMAIN downloaded_images
                  /\ patch_log[key].url = downloaded_images[a]
                  /\ downloaded_images[a] = RefOf(a)
                  /\ assets[a] = downloaded_images[a]
    /\ \A a \in DOMAIN art_ids_to_download :
          a \notin applied =>
              EntryAt(patch_log, OwnKey(a)) = EntryAt(log_loaded, OwnKey(a))

C4_Witness ==
    /\ ipc = "patching"
    /\ pending = {}
    /\ applied # {}
    /\ \E b \in DOMAIN art_ids_to_download :
          b \notin DOMAIN downloaded_images /\ OwnKey(b) \in DOMAIN log_loaded
    /\ \E c \in DOMAIN downloaded_images : c \notin applied

\* the second of two consecutive runs has made its selection
SecondRunSelected == image_runs >= 1 /\ ipc \in {"selected", "patching"}

\* what the previous run selected but did not record comes back
UnrecordedSelectedAgain ==
    \A a \in prev.selected \ prev.recorded : a \in DOMAIN art_ids_to_download

\* what the previous run recorded is neither downloaded nor rewritten
RecordedNotRepeated ==
    \A a \in prev.recorded : a \notin DOMAIN art_ids_to_download /\ a \notin applied

None == [has |-> FALSE, loc |-> <<>>]
Some(text) == [has |-> TRUE, loc |-> text]

\* Python truthiness of a name: neither None nor ""
Truthy(name) == name.has /\ name.loc # <<>>

\* str.lower() on the letters the names use
Lower(c) == IF c >= 65 /\ c <= 90 THEN c + 32 ELSE c

\* re.sub(r'[^a-z0-9]', '', name.lower()) if name else ""
normalize_name(name) ==
    IF ~Truthy(name) THEN <<>>
    ELSE SelectSeq([i \in 1..Len(name.loc) |-> Lower(name.loc[i])],
                   LAMBDA c : (c >= 97 /\ c <= 122) \/ (c >= 48 /\ c <= 57))

\* cursor.execute(query_loc, (id,)); fetchone(), only for a non-zero id
NameResult(names, loc_id) ==
    IF loc_id # 0 /\ loc_id \in DOMAIN names THEN Some(names[loc_id]) ELSE None

\* lines 152-157: the name the card is kept for
PrimaryName(row, names) ==
    LET interchange_id == row.InterchangeableTitleId
        title_id == row.titleId
        title_name_result == NameResult(names, title_id)
        interchange_name_result == NameResult(names, interchange_id)
        primary_loc_id == IF interchange_id # 0 THEN interchange_id ELSE title_id
    IN  IF primary_loc_id = interchange_id
        THEN IF interchange_name_result.has THEN interchange_name_result
             ELSE title_name_result
        ELSE IF title_name_result.has THEN title_name_result
             ELSE interchange_name_result

\* lines 160-169: the record appended for a row
TargetCard(row, names) ==
    [ArtId |-> row.ArtId,
     ExpansionCode |-> row.ExpansionCode,
     titleName |-> NameResult(names, row.titleId),
     interchangeName |-> NameResult(names, row.InterchangeableTitleId)]

\* get_target_card_data: the rows with a primary name, in order
TargetCardsOf(rows, names) ==
    LET kept == SelectSeq(rows, LAMBDA r : Truthy(PrimaryName(r, names)))
    IN  [i \in 1..Len(kept) |-> TargetCard(kept[i], names)]

\* card_name = interchange_name or title_name
CardNameOf(tcard) ==
    IF Truthy(tcard.interchangeName) THEN tcard.interchangeName ELSE tcard.titleName

\* the expansion every sleeve is looked up under
SleeveExpCode == "OM1"

\* lines 684-691: the loop over regular cards
RECURSIVE CollectCards(_, _, _)
CollectCards(cards, k, acc) ==
    IF k > Len(cards) THEN acc
    ELSE LET tcard == cards[k]
             card_name == CardNameOf(tcard)
         IN  IF Truthy(card_name)
             THEN CollectCards(cards, k + 1,
                      (tcard.ArtId :> [name |-> card_name,
                                       exp_code |-> tcard.ExpansionCode,
                                       is_sleeve |-> FALSE]) @@ acc)
             ELSE CollectCards(cards, k + 1, acc)

\* lines 694-702: the loop over sleeves, overriding the card entries
RECURSIVE CollectSleeves(_, _, _)
CollectSleeves(cards, k, acc) ==
    IF k > Len(cards) THEN acc
    ELSE LET tcard == cards[k]
             card_name == CardNameOf(tcard)
         IN  IF tcard.ArtId \in DOMAIN sleeve_data_map /\ Truthy(card_name)
             THEN CollectSleeves(cards, k + 1,
                      (tcard.ArtId :> [name |-> card_name,
                                       exp_code |-> SleeveExpCode,
                                       is_sleeve |-> TRUE]) @@ acc)
             ELSE CollectSleeves(cards, k + 1, acc)

\* all_art_ids_to_fetch_url after both loops
CollectAll(cards) == CollectSleeves(cards, 1, CollectCards(cards, 1, <<>>))

\* scryfall_data.get(exp_code, {}).get(normalized_name), then the art_crop
\* test of line 714; NoUrl when any of them is missing
CatalogUrl(data, exp_code, name) ==
    LET normalized_name == normalize_name(name) IN
    IF exp_code \in DOMAIN data /\ normalized_name \in DOMAIN data[exp_code]
    THEN data[exp_code][normalized_name].art_crop
    ELSE NoUrl

\* get_target_card_data, lines 133-169
RES_GetTargets ==
    /\ rpc = "rows"
    /\ target_cards' = TargetCardsOf(card_rows, en_names)
    /\ rpc' = "cards"
    /\ UNCHANGED <<card_rows, en_names, scryfall_data, all_art_ids_to_fetch_url,
                   fetch_url, not_found>>
    /\ UNCHANGED resolveOthers

\* lines 680-702
RES_Collect ==
    /\ rpc = "cards"
    /\ all_art_ids_to_fetch_url' = CollectAll(target_cards)
    /\ rpc' = "lookup"
    /\ UNCHANGED <<card_rows, en_names, target_cards, scryfall_data, fetch_url, not_found>>
    /\ UNCHANGED resolveOthers

\* lines 709-717 and 731-732: one turn of the loop over the collected art ids
RES_Lookup ==
    /\ rpc = "lookup"
    /\ \E art_id \in DOMAIN all_art_ids_to_fetch_url :
          /\ art_id \notin DOMAIN fetch_url
          /\ art_id \notin not_found
          /\ LET card_info_dict == all_art_ids_to_fetch_url[art_id]
                 url == CatalogUrl(scryfall_data, card_info_dict.exp_code,
                                   card_info_dict.name)
             IN  IF url # NoUrl
                 THEN /\ fetch_url' = (art_id :> url) @@ fetch_url
                      /\ UNCHANGED not_found
                 ELSE /\ not_found' = not_found \cup {art_id}
                      /\ UNCHANGED fetch_url
    /\ UNCHANGED <<card_rows, en_names, target_cards, scryfall_data,
                   all_art_ids_to_fetch_url, rpc>>
    /\ UNCHANGED resolveOthers

ResolveNext ==
    \/ RES_GetTargets
    \/ RES_Collect
    \/ RES_Lookup

(***************************************************************************)
(*   SpecResolve: a few Cards rows, a names table and a catalog.           *)
(***************************************************************************)
NameChr == [A |-> 65, a |-> 97, b |-> 98, sp |-> 32]

\* Localizations_enUS: LocId -> Loc, for LocIds 1..3
NamesTables ==
    { (1 :> <<NameChr.A>>) @@ (2 :> <<NameChr.b>>),
      (1 :> <<NameChr.A, NameChr.sp, NameChr.b>>) @@ (2 :> <<NameChr.a>>),
      (1 :> <<NameChr.A>>) @@ (2 :> <<>>),
      (1 :> <<NameChr.b>>) @@ (3 :> <<NameChr.a>>) }

CardRow(art_id, exp, title_id, interchange_id) ==
    [ArtId |-> art_id, ExpansionCode |-> exp, titleId |-> title_id,
     InterchangeableTitleId |-> interchange_id]

\* rows the query of lines 126-128 can return
CardRowSet ==
    { CardRow(7, "X", 1, 2), CardRow(7, "X", 2, 1), CardRow(8, "X", 1, 3),
      CardRow(8, "OM1", 1, 0), CardRow(461218, "OM1", 1, 2) }

CardRowLists ==
    { <<r>> : r \in CardRowSet } \cup { <<r1, r2>> : r1 \in CardRowSet, r2 \in CardRowSet }

WithArt(url) == [art_crop |-> url]

\* one expansion's catalog: normalized name -> card_info
SetCatalogs ==
    { (<<NameChr.a>> :> WithArt("u1")) @@ (<<NameChr.b>> :> WithArt("u2")),
      (<<NameChr.a>> :> WithArt("u1")),
      (<<NameChr.b>> :> WithArt("u2")),
      (<<NameChr.a>> :> WithArt("u1")) @@ (<<NameChr.b>> :> WithArt(NoUrl)),
      (<<NameChr.a, NameChr.b>> :> WithArt("u1")),
      <<>> }

ResolveInit ==
    /\ SubstIdle
    /\ AbilityIdle
    /\ ImageIdle
    /\ RemovalIdle
    /\ LaterIdle
    /\ card_rows \in CardRowLists
    /\ en_names \in NamesTables
    /\ \E c \in SetCatalogs : scryfall_data = ("X" :> c) @@ ("OM1" :> c)
    /\ target_cards = <<>>
    /\ all_art_ids_to_fetch_url = <<>>
    /\ fetch_url = <<>>
    /\ not_found = {}
    /\ rpc = "rows"

SpecResolve == ResolveInit /\ [][ResolveNext]_vars

(***************************************************************************)
(*                     Properties of the resolver                          *)
(***************************************************************************)
\* the art ids the lookup loop has reached
LookedUp == DOMAIN fetch_url \cup not_found

\* the card whose name was collected for the art id: the last one with a name
DecidingCard(art_id) ==
    LET idx == {i \in 1..Len(target_cards) :
                   target_cards[i].ArtId = art_id /\ Truthy(CardNameOf(target_cards[i]))}
    IN  target_cards[CHOOSE i \in idx : \A j \in idx : j <= i]

\* the catalog entry (URL) a name slot resolves to, NoUrl when it does not
SlotUrl(art_id, slot) ==
    CatalogUrl(scryfall_data, all_art_ids_to_fetch_url[art_id].exp_code, slot)

UsedUrl(art_id) == IF art_id \in DOMAIN fetch_url THEN fetch_url[art_id] ELSE NoUrl

\* C11: resolver precedence.  When both name slots of a card resolve to
\* catalog entries the URL used is the interchangeable name's; when only the
\* title slot resolves, the URL used is the title name's.
C11_ResolverPrecedence ==
    \A a \in LookedUp :
        LET c == DecidingCard(a)
            alt == SlotUrl(a, c.interchangeName)
            tit == SlotUrl(a, c.titleName)
        IN  /\ (alt # NoUrl /\ tit # NoUrl) => UsedUrl(a) = alt
            /\ (alt = NoUrl /\ tit # NoUrl) => UsedUrl(a) = tit

\* C12: resolver retry.  When the interchangeable name has text but no
\* catalog entry, the title name is looked up instead; the card is reported
\* unresolved only if both names fail.
C12_ResolverRetry ==
    \A a \in LookedUp :
        LET c == DecidingCard(a) IN
        (Truthy(c.interchangeName) /\ SlotUrl(a, c.interchangeName) = NoUrl) =>
            /\ UsedUrl(a) = SlotUrl(a, c.titleName)
            /\ a \in not_found => SlotUrl(a, c.titleName) = NoUrl

(***************************************************************************)
(*                    run_patch_removal: the rollback                      *)
(***************************************************************************)

\* the bundles on disk the glob of lines 1196-1201 finds for a ledger item:
\* "*<bucket_id>*" for a sleeve key holding a dict with a bucket_id,
\* "<key zero-padded>_CardArt_*" for every other key
FoundFiles(key, value, bundles) ==
    IF StartsAt(key, SleevePrefix, 0)
    THEN IF value.shape = "dict"
         THEN {a \in DOMAIN sleeve_data_map \cap DOMAIN bundles :
                  /\ sleeve_data_map[a].bucket_id = value.bucket_id
                  /\ bundles[a] # "absent"}
         ELSE {}
    ELSE {a \in DOMAIN bundles \ DOMAIN sleeve_data_map :
             Digits(a) = key /\ bundles[a] # "absent"}

\* what reading patch_log.json does to the removal (lines 1183-1187, 1221)
RemovalOpenOutcomes(file) ==
    CASE file.state = "missing" -> {"db"}
      [] file.state = "corrupt" -> {"db"}
      [] file.state \in {"undecodable", "not_object"} -> {"raised"}
      [] file.state = "bad_table" -> {"log", "raised"}
      [] OTHER -> IF DOMAIN file.ledger = {} THEN {"log"} ELSE {"items"}

\* lines 1179-1187 and 1221-1224: read the ledger
RPR_Open ==
    /\ removal_pc = "idle"
    /\ \E next \in RemovalOpenOutcomes(patch_file) :
          /\ removal_pc' = next
          /\ patched_items' = IF next = "items" THEN patch_file.ledger ELSE <<>>
          /\ removal_todo' = IF next = "items" THEN DOMAIN patch_file.ledger ELSE {}
    /\ UNCHANGED <<raw_files, imageVars>>
    /\ UNCHANGED removalOthers

\* lines 1190-1209: one turn of the loop; os.remove may raise OSError, which
\* is logged and leaves the file
RPR_Item ==
    /\ removal_pc = "items"
    /\ \E key \in removal_todo :
          /\ \E removed \in SUBSET FoundFiles(key, patched_items[key], assets) :
                assets' = [a \in DOMAIN assets |->
                              IF a \in removed THEN "absent" ELSE assets[a]]
          /\ removal_todo' = removal_todo \ {key}
          /\ removal_pc' = IF removal_todo \ {key} = {} THEN "log" ELSE "items"
    /\ UNCHANGED <<patched_items, raw_files>>
    /\ UNCHANGED <<patch_file, patch_log, log_shape, scryfall_url, ipc,
                   art_ids_to_download, downloaded_images, pending, applied,
                   log_loaded, image_runs, prev>>
    /\ UNCHANGED removalOthers

\* lines 1215-1219: delete patch_log.json, or log the OSError
RPR_RemoveLog ==
    /\ removal_pc = "log"
    /\ \E ok \in BOOLEAN :
          patch_file' = IF ok THEN [state |-> "missing", ledger |-> <<>>] ELSE patch_file
    /\ removal_pc' = "db"
    /\ UNCHANGED <<patched_items, removal_todo, raw_files>>
    /\ UNCHANGED <<patch_log, log_shape, scryfall_url, assets, ipc,
                   art_ids_to_download, downloaded_images, pending, applied,
                   log_loaded, image_runs, prev>>
    /\ UNCHANGED removalOthers

\* lines 1226-1247: delete the database files, or log the OSError of each
RPR_RemoveDb ==
    /\ removal_pc = "db"
    /\ \E left \in SUBSET raw_files : raw_files' = left
    /\ removal_pc' = "done"
    /\ UNCHANGED <<patched_items, removal_todo, imageVars>>
    /\ UNCHANGED removalOthers

RemovalNext ==
    \/ RPR_Open
    \/ RPR_Item
    \/ RPR_RemoveLog
    \/ RPR_RemoveDb

\* files json.load does not turn into a ledger object
OddFiles ==
    { [state |-> st, ledger |-> <<>>] : st \in {"undecodable", "not_object", "bad_table"} }

\* the bundles when a removal starts
RemovalAssets ==
    { [a \in ArtIds |-> "u1"],
      [a \in ArtIds |-> IF a = 8 THEN "absent" ELSE "u2"],
      [a \in ArtIds |-> IF a = 7 THEN "u1" ELSE "original"] }

RawFileSets == { {}, {"Raw_CardDatabase"}, {"Raw_CardDatabase", "Raw_ClientLocalization"} }

RemovalInit ==
    /\ SubstIdle
    /\ AbilityIdle
    /\ ResolveIdle
    /\ LaterIdle
    /\ patch_file \in StartFiles \cup OddFiles
    /\ assets \in RemovalAssets
    /\ raw_files \in RawFileSets
    /\ patched_items = <<>>
    /\ removal_todo = {}
    /\ removal_pc = "idle"
    /\ patch_log = <<>>
    /\ log_shape = "object"
    /\ scryfall_url = <<>>
    /\ ipc = "off"
    /\ art_ids_to_download = <<>>
    /\ downloaded_images = <<>>
    /\ pending = {}
    /\ applied = {}
    /\ log_loaded = <<>>
    /\ image_runs = 0
    /\ prev = <<>>

SpecRemoval == RemovalInit /\ [][RemovalNext]_vars

\* the bundles an entry names: the sleeve bundle of its bucket_id, or the card
\* art bundle of the art id that is its key
NamedBundles(key, value) ==
    IF StartsAt(key, SleevePrefix, 0)
    THEN IF value.shape = "dict"
         THEN {a \in DOMAIN sleeve_data_map :
                  sleeve_data_map[a].bucket_id = value.bucket_id}
         ELSE {}
    ELSE {a \in CardArtIds : Digits(a) = key}

\* C13: rollback.  After run_patch_removal has run on an existing ledger the
\* ledger holds no entry, so that the gate of a following run_image_change
\* holds nothing back, and the bundles named by every entry that was in the
\* ledger are gone.
C13_RemovalClearsAll ==
    (removal_pc = "done" /\ DOMAIN patched_items # {}) =>
        /\ LoadLedger(patch_file) = <<>>
        /\ \A a \in ArtIds : \A u \in Urls :
              ~is_patched_with_same_url(LoadLedger(patch_file), a, is_sleeve_of(a), u)
        /\ \A key \in DOMAIN patched_items :
              \A a \in NamedBundles(key, patched_items[key]) : assets[a] = "absent"

(***************************************************************************)
(*   SpecLoad: run_image_change on every kind of patch_log.json            *)
(***************************************************************************)
LoadInit ==
    /\ SubstIdle
    /\ AbilityIdle
    /\ ResolveIdle
    /\ RemovalIdle
    /\ LaterIdle
    /\ patch_file \in StartFiles \cup OddFiles
    /\ scryfall_url \in Catalogs
    /\ assets \in StartAssets
    /\ patch_log = <<>>
    /\ log_shape = "object"
    /\ ipc = "idle"
    /\ art_ids_to_download = <<>>
    /\ downloaded_images = <<>>
    /\ pending = {}
    /\ applied = {}
    /\ log_loaded = <<>>
    /\ image_runs = 0
    /\ prev = [selected |-> {}, recorded |-> {}, saved |-> FALSE]

SpecLoad == LoadInit /\ [][ImageNext]_vars

\* the art ids whose name the catalog resolves
Resolvable == {a \in DOMAIN scryfall_url : scryfall_url[a] # NoUrl}

\* patch_log.json is absent or cannot be parsed
NoUsableFile == patch_file.state \in {"missing", "corrupt", "undecodable"}

\* C14: ledger loading is tolerant.  A missing or unparsable patch_log.json
\* gives an empty ledger and the run goes on, selecting every resolvable
\* resource; a file of an unexpected shape never makes the run raise.
C14_LoadTolerant ==
    /\ ipc # "raised"
    /\ (ipc = "loaded" /\ NoUsableFile) => patch_log = <<>>
    /\ (ipc = "selected" /\ NoUsableFile) => DOMAIN art_ids_to_download = Resolvable

(***************************************************************************)
(*        update_card_names (unofficial_korean): lines 316-354             *)
(***************************************************************************)

\* a directive of the downloaded list: the keys the JSON object has, and the
\* values update_ability_text reads with card.get (0 for a key it lacks)
NameCard(keys, title_id, interchangeable_id, origin_en, new_en, origin_ko, new_ko) ==
    [keys |-> keys,
     titleId |-> title_id,
     InterchangeableTitleId |-> interchangeable_id,
     origin_en_name |-> origin_en, new_en_name |-> new_en,
     origin_ko_name |-> [nfc |-> origin_ko, nfd |-> formatting_for_2(origin_ko)],
     new_ko_name |-> [nfc |-> new_ko, nfd |-> formatting_for_2(new_ko)]]

\* lines 335-337: card['titleId'], card['InterchangeableTitleId'] and the four
\* names are subscripts; a key the directive lacks raises KeyError
SubscriptRaises(directive) ==
    ~({"titleId", "InterchangeableTitleId"} \subseteq directive.keys)

\* "UPDATE Localizations_enUS SET Loc = ? WHERE LocId = ?" (lines 338, 343)
NameUpdateEn(store, loc_id, text) ==
    [k \in DOMAIN store |-> IF LocIdOf(k) = loc_id THEN text ELSE store[k]]

\* lines 339-342, 344-347: every Formatted of formatted_map[str(loc_id)] gets
\* the nfd form for Formatted = 2 and the nfc form otherwise
NameUpdateKo(store, loc_id, name) ==
    [k \in DOMAIN store |->
        IF LocIdOf(k) = loc_id
        THEN (IF FormattedOf(k) = 2 THEN name.nfd ELSE name.nfc)
        ELSE store[k]]

\* lines 319-333: the list is fetched, the connection opened
UCN_Begin ==
    /\ names_pc = "idle"
    /\ names_pc' = IF translation_data = <<>> THEN "returned" ELSE "cards"
    /\ name_i' = 1
    /\ work_en' = enUS
    /\ work_ko' = koKR
    /\ UNCHANGED abilityVars
    /\ UNCHANGED namesOthers

\* lines 334-347: one directive of the for loop; a KeyError goes to line 351
\* and the connection is closed without a commit
UCN_Card ==
    /\ names_pc = "cards"
    /\ name_i <= Len(translation_data)
    /\ LET directive == translation_data[name_i] IN
       IF SubscriptRaises(directive)
       THEN /\ names_pc' = "failed"
            /\ enUS' = AfterClose(enUS, work_en, FALSE)
            /\ koKR' = AfterClose(koKR, work_ko, FALSE)
            /\ UNCHANGED <<name_i, work_en, work_ko>>
       ELSE /\ work_en' = NameUpdateEn(
                              NameUpdateEn(work_en, directive.titleId, directive.new_en_name),
                              directive.InterchangeableTitleId, directive.origin_en_name)
            /\ work_ko' = NameUpdateKo(
                              NameUpdateKo(work_ko, directive.titleId, directive.new_ko_name),
                              directive.InterchangeableTitleId, directive.origin_ko_name)
            /\ name_i' = name_i + 1
            /\ UNCHANGED <<names_pc, enUS, koKR>>
    /\ UNCHANGED <<translation_data, only_english, upc, card_i, creature_types,
                   all_updates_en, all_updates_ko, runs, enUS_start, koKR_start>>
    /\ UNCHANGED namesOthers

\* lines 348-350: the commit, then update_ability_text(log_callback,
\* translation_data) is called
UCN_Commit ==
    /\ names_pc = "cards"
    /\ name_i > Len(translation_data)
    /\ enUS' = AfterClose(enUS, work_en, TRUE)
    /\ koKR' = AfterClose(koKR, work_ko, TRUE)
    /\ names_pc' = "ability"
    /\ upc' = "idle"
    /\ UNCHANGED <<name_i, work_en, work_ko>>
    /\ UNCHANGED <<translation_data, only_english, card_i, creature_types,
                   all_updates_en, all_updates_ko, runs, enUS_start, koKR_start>>
    /\ UNCHANGED namesOthers

\* update_ability_text returned (it catches every exception itself, line 491)
UCN_Return ==
    /\ names_pc = "ability"
    /\ upc = "done" \/ CallFailed
    /\ names_pc' = IF upc = "done" THEN "done" ELSE "ability_failed"
    /\ upc' = "off"
    /\ UNCHANGED <<name_i, work_en, work_ko>>
    /\ UNCHANGED <<enUS, koKR, translation_data, only_english, card_i,
                   creature_types, all_updates_en, all_updates_ko, runs,
                   enUS_start, koKR_start>>
    /\ UNCHANGED namesOthers

NamesNext ==
    \/ UCN_Begin
    \/ UCN_Card
    \/ UCN_Commit
    \/ UCN_Return
    \/ AbilityNext

(***************************************************************************)
(* Input sets of update_card_names.                                        *)
(***************************************************************************)
BothKeys == {"titleId", "InterchangeableTitleId"}

\* a directive that resolves; one without the titleId key; one whose titleId
\* has no Cards row; one whose card links no text id
NameCards ==
    { NameCard(BothKeys, 1, 5, <<Chr.A>>, <<Chr.B>>, <<Chr.na>>, <<Chr.gak>>),
      NameCard({"InterchangeableTitleId"}, 0, 5,
               <<Chr.A>>, <<Chr.B>>, <<Chr.na>>, <<Chr.gak>>),
      NameCard(BothKeys, 2, 5, <<Chr.A>>, <<Chr.B>>, <<Chr.na>>, <<Chr.gak>>),
      NameCard(BothKeys, 3, 5, <<Chr.A>>, <<Chr.B>>, <<Chr.na>>, <<Chr.gak>>) }

\* the name rows of the titles 1, 3 and 5
NameRowsEn ==
    (<<1, 0>> :> <<Chr.A>>) @@ (<<3, 0>> :> <<Chr.A>>) @@ (<<5, 0>> :> <<Chr.B>>)
NameRowsKo ==
    (<<1, 0>> :> <<Chr.na>>) @@ (<<1, 2>> :> formatting_for_2(<<Chr.na>>))
        @@ (<<3, 0>> :> <<Chr.na>>)

NamesInit ==
    /\ SubstIdle
    /\ ImageIdle
    /\ ResolveIdle
    /\ RemovalIdle
    /\ \E data \in SeqsUpTo(NameCards, MaxCards),
          e \in SeqsUpTo(AbEnAlphabet, MaxStoreLen),
          k \in {<<Chr.na, Chr.neun>>, <<Chr.gak>>} :
          /\ enUS = EnRows(e, e) @@ NameRowsEn
          /\ koKR = KoRows(k) @@ NameRowsKo
          /\ translation_data = data
    /\ only_english = FALSE
    /\ upc = "off"
    /\ card_i = 1
    /\ creature_types = <<>>
    /\ all_updates_en = <<>>
    /\ all_updates_ko = <<>>
    /\ runs = 0
    /\ enUS_start = <<>>
    /\ koKR_start = <<>>
    /\ names_pc = "idle"
    /\ name_i = 1
    /\ work_en = <<>>
    /\ work_ko = <<>>
    /\ WorkerIdle
    /\ SideIdle

SpecNames == NamesInit /\ [][NamesNext]_vars

(***************************************************************************)
(* Properties of update_card_names (under SpecNames).                      *)
(***************************************************************************)
\* update_card_names has ended: after update_ability_text, or in its except
NamesEnded == names_pc \in {"done", "failed"}

\* C17: an unresolved directive is not fatal.  When update_card_names has
\* ended without a database error, every directive of the list that resolves
\* has its new names in the name rows of its title and update_ability_text
\* has committed, whatever unresolved directives the list holds besides it.
C17_UnresolvedNotFatal ==
    NamesEnded =>
        \A i \in 1..Len(translation_data) :
            LET d == translation_data[i] IN
            Resolves(d) =>
                /\ names_pc = "done"
                /\ \A key \in DOMAIN enUS :
                      LocIdOf(key) = d.titleId => enUS[key] = d.new_en_name
                /\ \A key \in DOMAIN koKR :
                      LocIdOf(key) = d.titleId /\ FormattedOf(key) = 0
                          => koKR[key] = d.new_ko_name.nfc

(***************************************************************************)
(*                 PatchWorker.run: lines 1258-1294                        *)
(***************************************************************************)

\* how a patch step called by run can end
StepOutcomes == {"returned", "raised"}

\* the step run reaches after the install path was found (lines 1275-1288)
StepAfter(pc, options) ==
    IF pc = "start" /\ options.remove_patch THEN "removal"
    ELSE IF pc = "start" THEN "localization"
    ELSE IF pc = "localization" THEN "images"
    ELSE "english"

\* lines 1263-1273: find_and_set_mtga_path; not found: finished is emitted and
\* run returns through the finally of line 1293
W_Start ==
    /\ worker_pc = "start"
    /\ \E found \in BOOLEAN :
          IF found
          THEN /\ worker_pc' = StepAfter("start", patch_options)
               /\ UNCHANGED finished
          ELSE /\ worker_pc' = "finally"
               /\ finished' = finished + 1
    /\ UNCHANGED <<patch_options, spin>>
    /\ UNCHANGED <<substVars, abilityVars, imageVars, resolveVars, removalVars,
                   namesVars, sideVars>>

\* lines 1275-1279: run_patch_removal, finished is emitted, run returns
W_Removal ==
    /\ worker_pc = "removal"
    /\ \E outcome \in StepOutcomes :
          IF outcome = "returned"
          THEN /\ worker_pc' = "finally"
               /\ finished' = finished + 1
          ELSE /\ worker_pc' = "except"
               /\ UNCHANGED finished
    /\ UNCHANGED <<patch_options, spin>>
    /\ UNCHANGED <<substVars, abilityVars, imageVars, resolveVars, removalVars,
                   namesVars, sideVars>>

\* lines 1281-1282: run_localization_patch when selected
W_Localization ==
    /\ worker_pc = "localization"
    /\ \E outcome \in StepOutcomes :
          worker_pc' = IF patch_options.mistranslation /\ outcome = "raised"
                       THEN "except"
                       ELSE StepAfter("localization", patch_options)
    /\ UNCHANGED <<patch_options, finished, spin>>
    /\ UNCHANGED <<substVars, abilityVars, imageVars, resolveVars, removalVars,
                   namesVars, sideVars>>

\* lines 1284-1285: run_image_change when selected; its last statement (line
\* 806) calls update_card_names, which returns at once for "art_only"
W_Images ==
    /\ worker_pc = "images"
    /\ \E outcome \in StepOutcomes :
          IF ~patch_options.images
          THEN /\ worker_pc' = StepAfter("images", patch_options)
               /\ UNCHANGED names_pc
          ELSE IF outcome = "raised"
          THEN /\ worker_pc' = "except"
               /\ UNCHANGED names_pc
          ELSE IF patch_options.name_option = "unofficial_korean"
          THEN /\ worker_pc' = "names"
               /\ names_pc' = "idle"
          ELSE /\ worker_pc' = StepAfter("images", patch_options)
               /\ UNCHANGED names_pc
    /\ UNCHANGED <<name_i, work_en, work_ko>>
    /\ UNCHANGED <<patch_options, finished, spin>>
    /\ UNCHANGED <<substVars, abilityVars, imageVars, resolveVars, removalVars,
                   sideVars>>

\* update_card_names returned to run_image_change, and that to run
W_NamesReturn ==
    /\ worker_pc = "names"
    /\ names_pc \in {"done", "failed", "returned", "ability_failed"}
    /\ worker_pc' = StepAfter("images", patch_options)
    /\ names_pc' = "off"
    /\ UNCHANGED <<name_i, work_en, work_ko>>
    /\ UNCHANGED <<patch_options, finished, spin>>
    /\ UNCHANGED <<substVars, abilityVars, imageVars, resolveVars, removalVars,
                   sideVars>>

\* lines 1287-1290: run_english_name_patch when selected, the closing message
W_English ==
    /\ worker_pc = "english"
    /\ \E outcome \in StepOutcomes :
          worker_pc' = IF patch_options.english_names_only /\ outcome = "raised"
                       THEN "except"
                       ELSE "finally"
    /\ UNCHANGED <<patch_options, finished, spin>>
    /\ UNCHANGED <<substVars, abilityVars, imageVars, resolveVars, removalVars,
                   namesVars, sideVars>>

\* lines 1291-1292: the exception is logged
W_Except ==
    /\ worker_pc = "except"
    /\ worker_pc' = "finally"
    /\ UNCHANGED <<patch_options, finished, spin>>
    /\ UNCHANGED <<substVars, abilityVars, imageVars, resolveVars, removalVars,
                   namesVars, sideVars>>

\* lines 1293-1294: finally emits finished
W_Finally ==
    /\ worker_pc = "finally"
    /\ worker_pc' = "done"
    /\ finished' = finished + 1
    /\ UNCHANGED <<patch_options, spin>>
    /\ UNCHANGED <<substVars, abilityVars, imageVars, resolveVars, removalVars,
                   namesVars, sideVars>>

\* lines 468-482 with an empty old: find returns start_index, the text grows
\* by new, start_index stays below len(work_text); one more iteration
UA_Spin ==
    /\ upc = "hung"
    /\ spin' = ~spin
    /\ UNCHANGED <<worker_pc, patch_options, finished>>
    /\ UNCHANGED <<substVars, abilityVars, imageVars, resolveVars, removalVars,
                   namesVars, sideVars>>

WorkerNext ==
    \/ W_Start
    \/ W_Removal
    \/ W_Localization
    \/ W_Images
    \/ W_NamesReturn
    \/ W_English
    \/ W_Except
    \/ W_Finally
    \/ UA_Spin
    \/ NamesNext

(***************************************************************************)
(* Input sets of PatchWorker.run.                                          *)
(***************************************************************************)
NameOptions == {"art_only", "real_english", "unofficial_korean"}

PatchOptions ==
    [remove_patch : BOOLEAN, mistranslation : BOOLEAN, images : BOOLEAN,
     english_names_only : BOOLEAN, name_option : NameOptions]

\* the downloaded list: one directive that resolves, alone or followed by one
\* whose origin_ko_name ends in a space, or by one without the titleId key,
\* or after one whose titleId has no Cards row
WorkerLists ==
    LET good == NameCard(BothKeys, 1, 5, <<Chr.A>>, <<Chr.B>>,
                         <<Chr.na>>, <<Chr.gak>>)
        trailing == NameCard(BothKeys, 1, 5, <<Chr.A>>, <<Chr.B>>,
                             <<Chr.na, Chr.sp>>, <<Chr.gak>>)
        keyless == NameCard({"InterchangeableTitleId"}, 0, 5,
                            <<Chr.A>>, <<Chr.B>>, <<Chr.na>>, <<Chr.gak>>)
        rowless == NameCard(BothKeys, 2, 5, <<Chr.A>>, <<Chr.B>>,
                            <<Chr.na>>, <<Chr.gak>>)
    IN  { <<good>>, <<good, trailing>>, <<good, keyless>>, <<rowless, good>> }

WorkerInit ==
    /\ SubstIdle
    /\ ImageIdle
    /\ ResolveIdle
    /\ RemovalIdle
    /\ enUS = EnRows(<<Chr.A>>, <<Chr.A>>) @@ NameRowsEn
    /\ koKR = KoRows(<<Chr.na, Chr.neun>>) @@ NameRowsKo
    /\ translation_data \in WorkerLists
    /\ only_english = FALSE
    /\ upc = "off"
    /\ card_i = 1
    /\ creature_types = <<>>
    /\ all_updates_en = <<>>
    /\ all_updates_ko = <<>>
    /\ runs = 0
    /\ enUS_start = <<>>
    /\ koKR_start = <<>>
    /\ NamesIdle
    /\ worker_pc = "start"
    /\ patch_options \in PatchOptions
    /\ finished = 0
    /\ spin = FALSE
    /\ SideIdle

\* the steps of the thread other than UA_Card; wherever UA_Card can be taken
\* UA_DbError can be too, so one of these is enabled exactly where WorkerNext is
ThreadStep ==
    \/ W_Start \/ W_Removal \/ W_Localization \/ W_Images \/ W_NamesReturn
    \/ W_English \/ W_Except \/ W_Finally \/ UA_Spin
    \/ UCN_Begin \/ UCN_Card \/ UCN_Commit \/ UCN_Return
    \/ UA_Begin \/ UA_SkipCard \/ UA_Commit \/ UA_DbError

\* run is the body of its own thread (QThread), which the scheduler keeps
\* running: the thread does not stop where a step can be taken.  No path
\* takes UA_Card for ever, so this is weak fairness of WorkerNext.
SpecWorker == WorkerInit /\ [][WorkerNext]_vars /\ WF_vars(ThreadStep)

(***************************************************************************)
(* Properties of PatchWorker.run (under SpecWorker).                       *)
(***************************************************************************)
\* C18: every run of PatchWorker.run eventually reaches its terminal state
\* with finished emitted, whichever step fails or raises and whether or not
\* the install path is found.
C18_RunFinishes == <>(worker_pc = "done" /\ finished >= 1)

(***************************************************************************)
(*                 download_images: lines 223-244                          *)
(***************************************************************************)

\* ThreadPoolExecutor(max_workers=8)
max_workers == 8

\* response.content of a URL that serves its image
Body(url) == <<url>>

\* what _download(art_id, url) can return as content (lines 228-233): the body
\* served, an empty body, or None after a RequestException
DownloadOutcomes(url) == {Some(Body(url)), Some(<<>>), None}

\* a main thread that drops the whole map when one download failed
Collected_FailureClears(image_data, art_id, content) ==
    IF Truthy(content) THEN (art_id :> content.loc) @@ image_data ELSE <<>>

\* lines 238-239: "if content: art_id_to_image_data[art_id] = content"
Collected(image_data, art_id, content) ==
    IF Truthy(content) THEN (art_id :> content.loc) @@ image_data ELSE image_data

Running == { a \in DOMAIN future : future[a] = "running" }

\* line 235: every item of art_id_to_url is submitted to the executor
DL_Submit ==
    /\ pool_pc = "idle"
    /\ pool_pc' = "submitted"
    /\ future' = [a \in DOMAIN art_id_to_url |-> "queued"]
    /\ fetched' = [a \in DOMAIN art_id_to_url |-> None]
    /\ UNCHANGED <<art_id_to_url, art_id_to_image_data>>
    /\ UNCHANGED <<substVars, abilityVars, imageVars, resolveVars, removalVars,
                   namesVars, workerVars, pageVars, tailVars>>

\* a free worker thread takes a queued task
DL_Run(a) ==
    /\ pool_pc = "submitted"
    /\ future[a] = "queued"
    /\ Cardinality(Running) < max_workers
    /\ future' = [future EXCEPT ![a] = "running"]
    /\ UNCHANGED <<art_id_to_url, fetched, art_id_to_image_data, pool_pc>>
    /\ UNCHANGED <<substVars, abilityVars, imageVars, resolveVars, removalVars,
                   namesVars, workerVars, pageVars, tailVars>>

\* lines 227-233: _download returns in its worker thread
DL_Done(a) ==
    /\ pool_pc = "submitted"
    /\ future[a] = "running"
    /\ \E content \in DownloadOutcomes(art_id_to_url[a]) :
          fetched' = [fetched EXCEPT ![a] = content]
    /\ future' = [future EXCEPT ![a] = "completed"]
    /\ UNCHANGED <<art_id_to_url, art_id_to_image_data, pool_pc>>
    /\ UNCHANGED <<substVars, abilityVars, imageVars, resolveVars, removalVars,
                   namesVars, workerVars, pageVars, tailVars>>

\* lines 236-241: as_completed yields a completed future to the main thread
DL_Yield(a) ==
    /\ pool_pc = "submitted"
    /\ future[a] = "completed"
    /\ future' = [future EXCEPT ![a] = "yielded"]
    /\ art_id_to_image_data' = Collected(art_id_to_image_data, a, fetched[a])
    /\ UNCHANGED <<art_id_to_url, fetched, pool_pc>>
    /\ UNCHANGED <<substVars, abilityVars, imageVars, resolveVars, removalVars,
                   namesVars, workerVars, pageVars, tailVars>>

\* lines 242-243: every future was yielded, the map is returned
DL_Return ==
    /\ pool_pc = "submitted"
    /\ \A a \in DOMAIN future : future[a] = "yielded"
    /\ pool_pc' = "returned"
    /\ UNCHANGED <<art_id_to_url, future, fetched, art_id_to_image_data>>
    /\ UNCHANGED <<substVars, abilityVars, imageVars, resolveVars, removalVars,
                   namesVars, workerVars, pageVars, tailVars>>

PoolNext ==
    \/ DL_Submit
    \/ \E a \in DOMAIN future : DL_Run(a)
    \/ \E a \in DOMAIN future : DL_Done(a)
    \/ \E a \in DOMAIN future : DL_Yield(a)
    \/ DL_Return

\* the maps handed to download_images: any of the art ids, each with a URL
UrlMaps == UNION { [ids -> Urls] : ids \in SUBSET ArtIds }

PoolInit ==
    /\ SubstIdle
    /\ AbilityIdle
    /\ ImageIdle
    /\ ResolveIdle
    /\ RemovalIdle
    /\ NamesIdle
    /\ WorkerIdle
    /\ PageIdle
    /\ TailIdle
    /\ art_id_to_url \in UrlMaps
    /\ future = <<>>
    /\ fetched = <<>>
    /\ art_id_to_image_data = <<>>
    /\ pool_pc = "idle"

SpecPool == PoolInit /\ [][PoolNext]_vars

(***************************************************************************)
(* Properties of download_images (under SpecPool).                         *)
(***************************************************************************)
\* the downloads that brought an image, and those the code logs as failed
Succeeded == { a \in DOMAIN fetched : Truthy(fetched[a]) }
Failed == { a \in DOMAIN fetched : ~Truthy(fetched[a]) }

\* C19: fetch isolation.  Whatever the order in which the workers run and
\* complete, the returned map holds exactly the downloads that brought an
\* image, each under its own art id with the content served at its own URL;
\* a failed download is absent and takes no sibling with it.
C19_FetchIsolation ==
    pool_pc = "returned" =>
        /\ DOMAIN art_id_to_image_data = Succeeded
        /\ \A a \in Succeeded :
              art_id_to_image_data[a] = Body(art_id_to_url[a])

\* C19 witness: a returned batch in which one download ended in a
\* RequestException and two siblings brought their images into the map.
C19_Witness ==
    /\ pool_pc = "returned"
    /\ \E a \in Failed : fetched[a] = None
    /\ Cardinality(Succeeded) >= 2
    /\ Succeeded \subseteq DOMAIN art_id_to_image_data

(***************************************************************************)
(*                 fetch_all_sets_data: lines 180-221                      *)
(***************************************************************************)

\* code.upper() and code.lower() on the expansion codes used
ExpansionCodes == {"OM1", "om1", "OMB", "NEO"}
CodeUpper == [c \in ExpansionCodes |-> IF c = "om1" THEN "OM1" ELSE c]
CodeLower ==
    [c \in ExpansionCodes |->
        IF c \in {"OM1", "om1"} THEN "om1" ELSE IF c = "OMB" THEN "omb" ELSE "neo"]

\* lines 185-190
SearchCodesOf(code) ==
    IF CodeUpper[code] = "OM1" THEN <<"spm", "tspm">>
    ELSE IF CodeUpper[code] = "OMB" THEN <<"mar", "tspm">>
    ELSE <<CodeLower[code]>>

\* the service: page k of a search holds one card, named after the search and
\* the page; has_more is true on every page but the last
CardOn(search_code, k) == [name |-> <<search_code, k>>, set |-> search_code]
HasMore(counts, search_code, k) == k < counts[search_code]

\* how a request can end: a response, or a RequestException
RequestOutcomes == {"ok", "error"}

\* lines 202-208: the cards of the page held go into set_cards_by_name
WithPage(cards_by_name, page) ==
    LET card_info == CardOn(page.search_code, page.page)
    IN  (card_info.name :> card_info) @@ cards_by_name

\* lines 184-191: the next expansion code, its search codes, an empty dict
FS_Code ==
    /\ page_pc = "codes"
    /\ code_i <= Len(expansion_codes)
    /\ search_left' = SearchCodesOf(expansion_codes[code_i])
    /\ set_cards_by_name' = <<>>
    /\ page_pc' = "search"
    /\ UNCHANGED <<expansion_codes, page_count, code_i, json_data, all_sets_data>>
    /\ UNCHANGED <<substVars, abilityVars, imageVars, resolveVars, removalVars,
                   namesVars, workerVars, poolVars, tailVars>>

\* lines 192-200: the first request of a search code; on a RequestException
\* the search code is passed over (continue)
FS_First ==
    /\ page_pc = "search"
    /\ search_left # <<>>
    /\ \E outcome \in RequestOutcomes :
          IF outcome = "ok"
          THEN /\ json_data' = [search_code |-> Head(search_left), page |-> 1]
               /\ page_pc' = "page"
          ELSE UNCHANGED <<json_data, page_pc>>
    /\ search_left' = Tail(search_left)
    /\ UNCHANGED <<expansion_codes, page_count, code_i, set_cards_by_name,
                   all_sets_data>>
    /\ UNCHANGED <<substVars, abilityVars, imageVars, resolveVars, removalVars,
                   namesVars, workerVars, poolVars, tailVars>>

\* lines 201-218: one pass of the while loop: the page's cards are stored;
\* with has_more the next page is requested, and a RequestException there
\* breaks out of the loop as a page without has_more does
FS_Page ==
    /\ page_pc = "page"
    /\ set_cards_by_name' = WithPage(set_cards_by_name, json_data)
    /\ IF HasMore(page_count, json_data.search_code, json_data.page)
       THEN \E outcome \in RequestOutcomes :
               IF outcome = "ok"
               THEN /\ json_data' = [json_data EXCEPT !.page = @ + 1]
                    /\ UNCHANGED page_pc
               ELSE /\ page_pc' = "search"
                    /\ UNCHANGED json_data
       ELSE /\ page_pc' = "search"
            /\ UNCHANGED json_data
    /\ UNCHANGED <<expansion_codes, page_count, code_i, search_left, all_sets_data>>
    /\ UNCHANGED <<substVars, abilityVars, imageVars, resolveVars, removalVars,
                   namesVars, workerVars, poolVars, tailVars>>

\* line 219: all_sets_data[code] = set_cards_by_name
FS_EndCode ==
    /\ page_pc = "search"
    /\ search_left = <<>>
    /\ all_sets_data' =
          [c \in DOMAIN all_sets_data \cup {expansion_codes[code_i]} |->
              IF c = expansion_codes[code_i] THEN set_cards_by_name
              ELSE all_sets_data[c]]
    /\ code_i' = code_i + 1
    /\ page_pc' = "codes"
    /\ UNCHANGED <<expansion_codes, page_count, search_left, json_data,
                   set_cards_by_name>>
    /\ UNCHANGED <<substVars, abilityVars, imageVars, resolveVars, removalVars,
                   namesVars, workerVars, poolVars, tailVars>>

\* line 220
FS_Return ==
    /\ page_pc = "codes"
    /\ code_i > Len(expansion_codes)
    /\ page_pc' = "done"
    /\ UNCHANGED <<expansion_codes, page_count, code_i, search_left, json_data,
                   set_cards_by_name, all_sets_data>>
    /\ UNCHANGED <<substVars, abilityVars, imageVars, resolveVars, removalVars,
                   namesVars, workerVars, poolVars, tailVars>>

PageNext ==
    \/ FS_Code
    \/ FS_First
    \/ FS_Page
    \/ FS_EndCode
    \/ FS_Return

(***************************************************************************)
(* Bounds and input sets of fetch_all_sets_data.                           *)
(***************************************************************************)
MaxPages == 2
MaxCodes == 2

SearchCodes == {"spm", "tspm", "mar", "om1", "omb", "neo"}

\* codes in use by both expansions, and by one alone
PagedCodes == {"spm", "tspm", "neo"}

PageInit ==
    /\ SubstIdle
    /\ AbilityIdle
    /\ ImageIdle
    /\ ResolveIdle
    /\ RemovalIdle
    /\ NamesIdle
    /\ WorkerIdle
    /\ PoolIdle
    /\ TailIdle
    /\ expansion_codes \in SeqsUpTo(ExpansionCodes, MaxCodes)
    /\ \E counts \in [PagedCodes -> 1..MaxPages] :
          page_count = [sc \in SearchCodes |->
                           IF sc \in PagedCodes THEN counts[sc] ELSE 1]
    /\ code_i = 1
    /\ search_left = <<>>
    /\ json_data = [search_code |-> "", page |-> 0]
    /\ set_cards_by_name = <<>>
    /\ all_sets_data = <<>>
    /\ page_pc = "codes"

SpecPage == PageInit /\ [][PageNext]_vars

(***************************************************************************)
(* Properties of fetch_all_sets_data (under SpecPage).                     *)
(***************************************************************************)
RECURSIVE SetOf(_)
SetOf(seq) == IF seq = <<>> THEN {} ELSE {Head(seq)} \cup SetOf(Tail(seq))

\* C20: pagination.  In the catalog returned for an expansion, a search whose
\* first page is there has all its pages there, up to the one whose has_more
\* is false: querying went on after every page with has_more.
C20_AllPagesFetched ==
    page_pc = "done" =>
        \A code \in DOMAIN all_sets_data :
            \A sc \in SetOf(SearchCodesOf(code)) :
                CardOn(sc, 1).name \in DOMAIN all_sets_data[code] =>
                    \A k \in 1..page_count[sc] :
                        CardOn(sc, k).name \in DOMAIN all_sets_data[code]

(***************************************************************************)
(* Properties of the pair derivation (under SpecSubst).                    *)
(***************************************************************************)
NoDuplicatePair(pairs) ==
    \A i, j \in 1..Len(pairs) : pairs[i] = pairs[j] => i = j

LongestOldFirst(pairs) ==
    \A i, j \in 1..Len(pairs) : i < j => Len(pairs[i][1]) >= Len(pairs[j][1])

\* C21: the pairs handed to the substitution step, for each of en, ko_nfc
\* and ko_nfd, hold no pair twice and are ordered by non-increasing length
\* of the old side, for the directive at hand.
C21_PairsDedupedAndOrdered ==
    /\ \A pairs \in {Replacements(card).en, Replacements(card).ko_nfc,
                     Replacements(card).ko_nfd} :
          NoDuplicatePair(pairs) /\ LongestOldFirst(pairs)
    /\ pass = 1 => NoDuplicatePair(replace_map) /\ LongestOldFirst(replace_map)

\* C21 witness: the replace step holds a full pair and the short-form pair
\* derived from it, the longer old side first.
C21_Witness ==
    /\ phase = "replace"
    /\ pass = 1
    /\ Len(replace_map) = 2
    /\ Len(replace_map[1][1]) > Len(replace_map[2][1])

(***************************************************************************)
(* Properties of the particle repair's frame (under SpecSubst).            *)
(***************************************************************************)
\* C22: frame of the particle repair.  After an insertion the repaired text
\* has the length of the text the replacement produced and differs from it
\* at most in the character right after the inserted name; when that
\* character is none of the eight particles, or the insertion ends the text,
\* the repair changes nothing.
C22_RepairFrame ==
    KoStepDone =>
        /\ Len(last_rep.after) = Len(last_rep.spliced)
        /\ \A k \in 1..Len(last_rep.spliced) :
              k # last_rep.josa_index + 1 => last_rep.after[k] = last_rep.spliced[k]
        /\ ~ParticleFollows => last_rep.after = last_rep.spliced

\* C22 witness: a name of several characters was inserted and the particle
\* after it rewritten.
C22_Witness ==
    /\ ParticleFollows
    /\ JosaAfter # JosaBefore
    /\ Len(last_rep.new) >= 2

(***************************************************************************)
(* Properties of the sentinels (under SpecSubst).                          *)
(***************************************************************************)
\* "__PROTECTED_", the part every sentinel begins with
SentinelHead == SubSeq(Placeholder(0), 1, 12)

\* C23: sentinel soundness.  The text a substitution ends with holds a
\* sentinel, or the beginning of one, only if the text it was given did.
C23_NoSentinelInOutput ==
    (phase = "done" /\ pass = 1) =>
        (Contains(SentinelHead, work_text) => Contains(SentinelHead, loc_text))

(***************************************************************************)
(*                 patch_seek_keyword: lines 1045-1169                     *)
(***************************************************************************)
Discover == <<68, 105, 115, 99, 111, 118, 101, 114>>   \* "Discover"
SEEK == <<83, 69, 69, 75>>                              \* "SEEK"
Balgyeon == <<48156, 44204>>                            \* '발견'
Tamsaek == <<53456, 49353>>                             \* '탐색'

RECURSIVE CountFrom(_, _, _)
CountFrom(s, sub, start) ==
    LET i == Find(s, sub, start)
    IN  IF i = -1 THEN 0 ELSE 1 + CountFrom(s, sub, i + Len(sub))

\* s.count(sub) for a non-empty sub
Count(s, sub) == CountFrom(s, sub, 0)

RECURSIVE ReplaceN(_, _, _, _)
\* s.replace(old, new, count) for a non-empty old
ReplaceN(s, old, new, count) ==
    LET i == Find(s, old, 0)
    IN  IF count = 0 \/ i = -1 THEN s
        ELSE Slice(s, 0, i) \o new
             \o ReplaceN(Slice(s, i + Len(old), Len(s)), old, new, count - 1)

RECURSIVE MatchStart(_, _, _, _)
\* list(re.finditer(sub, s))[n].start(), the search going on from start
MatchStart(s, sub, n, start) ==
    LET i == Find(s, sub, start)
    IN  IF n = 0 THEN i ELSE MatchStart(s, sub, n - 1, i + Len(sub))

\* a comparison that always finds a difference
Differs_Always(new_ko_text, ko_text) == TRUE

\* line 1158: "if new_ko_text != ko_text"
Differs(new_ko_text, ko_text) == new_ko_text # ko_text

\* lines 1104-1160 for one Korean row: [write, text], write FALSE for a row
\* the loop passes over
SeekTransform(en_text, ko_text, formatted) ==
    LET skip == [write |-> FALSE, text |-> ko_text]
        target_discover_count == Count(en_text, Discover)
        target_seek_count == Count(en_text, SEEK)
        ko_reverted == Replace(ko_text, Tamsaek, Balgyeon)
        new_ko_text ==
            IF target_discover_count > 0
            THEN IF Find(en_text, Discover, 0) < Find(en_text, SEEK, 0)
                 THEN LET start_pos == MatchStart(ko_reverted, Balgyeon,
                                                  target_discover_count, 0)
                      IN  Slice(ko_reverted, 0, start_pos) \o Tamsaek
                          \o Slice(ko_reverted, start_pos + Len(Balgyeon),
                                   Len(ko_reverted))
                 ELSE ReplaceN(ko_reverted, Balgyeon, Tamsaek, target_seek_count)
            ELSE Replace(ko_reverted, Balgyeon, Tamsaek)
    IN  IF en_text = <<>> \/ target_seek_count = 0 THEN skip
        ELSE IF /\ Count(ko_text, Balgyeon) = target_discover_count
                /\ Count(ko_text, Tamsaek) = target_seek_count
        THEN skip
        ELSE IF /\ target_discover_count > 0
                /\ Count(ko_reverted, Balgyeon)
                       < target_discover_count + target_seek_count
        THEN skip
        ELSE IF Differs(new_ko_text, ko_text)
        THEN [write |-> TRUE,
              text |-> IF formatted = 2 THEN formatting_for_2(new_ko_text)
                       ELSE new_ko_text]
        ELSE skip

\* the LocIds of the ability texts of the expansion (lines 1063-1078)
direct_loc_ids == {30}

\* en_texts_to_process.get(loc_id_str): the English text of a LocId, "" for none
EnTextOf(store, loc_id) ==
    IF <<loc_id, 0>> \in DOMAIN store THEN store[<<loc_id, 0>>] ELSE <<>>

\* lines 1085-1102: the LocIds whose English text holds SEEK, their Korean rows
PSK_Begin ==
    /\ seek_pc \in {"idle", "done"}
    /\ runs < MaxRuns
    /\ LET loc_ids_with_seek ==
               { id \in direct_loc_ids : Contains(SEEK, EnTextOf(enUS, id)) }
       IN  IF loc_ids_with_seek = {}
           THEN /\ seek_pc' = "returned"
                /\ UNCHANGED ko_texts_to_process
           ELSE /\ seek_pc' = "rows"
                /\ ko_texts_to_process' = RowsOf(koKR, loc_ids_with_seek)
    /\ seek_i' = 1
    /\ updates_ko' = <<>>
    /\ enUS_start' = enUS
    /\ koKR_start' = koKR
    /\ UNCHANGED seek_writes
    /\ UNCHANGED <<enUS, koKR, translation_data, only_english, upc, card_i,
                   creature_types, all_updates_en, all_updates_ko, runs>>
    /\ UNCHANGED seekOthers

\* lines 1104-1160: one row of the for loop
PSK_Row ==
    /\ seek_pc = "rows"
    /\ seek_i <= Len(ko_texts_to_process)
    /\ LET key == ko_texts_to_process[seek_i]
           r == SeekTransform(EnTextOf(enUS, LocIdOf(key)), koKR[key],
                              FormattedOf(key))
       IN  updates_ko' = IF r.write
                         THEN Append(updates_ko,
                                     <<r.text, LocIdOf(key), FormattedOf(key)>>)
                         ELSE updates_ko
    /\ seek_i' = seek_i + 1
    /\ UNCHANGED <<seek_pc, ko_texts_to_process, seek_writes>>
    /\ UNCHANGED abilityVars
    /\ UNCHANGED seekOthers

\* lines 1162-1164: the executemany and the commit when there are updates
PSK_Commit ==
    /\ seek_pc = "rows"
    /\ seek_i > Len(ko_texts_to_process)
    /\ koKR' = ExecuteManyKo(koKR, updates_ko, 1)
    /\ seek_pc' = "done"
    /\ runs' = runs + 1
    /\ seek_writes' = Append(seek_writes, Len(updates_ko))
    /\ UNCHANGED <<ko_texts_to_process, seek_i, updates_ko>>
    /\ UNCHANGED <<enUS, translation_data, only_english, upc, card_i,
                   creature_types, all_updates_en, all_updates_ko, enUS_start,
                   koKR_start>>
    /\ UNCHANGED seekOthers

SeekNext ==
    \/ PSK_Begin
    \/ PSK_Row
    \/ PSK_Commit

(***************************************************************************)
(* Bounds and input sets of patch_seek_keyword.                            *)
(***************************************************************************)
MaxSeekLen == 4

SeekAlphabet == {48156, 44204, 53456, 49353, Chr.sp}

SeekEnTexts ==
    { SEEK, Discover,
      Discover \o <<Chr.sp>> \o SEEK,
      SEEK \o <<Chr.sp>> \o Discover,
      SEEK \o <<Chr.sp>> \o SEEK }

SeekInit ==
    /\ SubstIdle
    /\ ImageIdle
    /\ ResolveIdle
    /\ RemovalIdle
    /\ NamesIdle
    /\ WorkerIdle
    /\ PoolIdle
    /\ PageIdle
    /\ GuiIdle
    /\ \E en \in SeekEnTexts, k \in SeqsUpTo(SeekAlphabet, MaxSeekLen) :
          /\ enUS = (<<30, 0>> :> en)
          /\ koKR = (<<30, 0>> :> k) @@ (<<30, 2>> :> formatting_for_2(k))
    /\ translation_data = <<>>
    /\ only_english = FALSE
    /\ upc = "off"
    /\ card_i = 1
    /\ creature_types = <<>>
    /\ all_updates_en = <<>>
    /\ all_updates_ko = <<>>
    /\ runs = 0
    /\ enUS_start = <<>>
    /\ koKR_start = <<>>
    /\ seek_pc = "idle"
    /\ ko_texts_to_process = <<>>
    /\ seek_i = 1
    /\ updates_ko = <<>>
    /\ seek_writes = <<>>

SpecSeek == SeekInit /\ [][SeekNext]_vars

(***************************************************************************)
(* Properties of patch_seek_keyword (under SpecSeek).                      *)
(***************************************************************************)
\* C24: patch_seek_keyword is idempotent.  The transform applied to a text
\* it produced, with the same English text, writes nothing; the second run
\* on the same store writes no record.
C24_SeekIdempotent ==
    /\ \A k \in 1..Len(updates_ko) :
          ~SeekTransform(EnTextOf(enUS, updates_ko[k][2]), updates_ko[k][1],
                         updates_ko[k][3]).write
    /\ Len(seek_writes) >= 2 => seek_writes[2] = 0

\* C24 witness: two runs completed, the first of which wrote a record.
C24_Witness ==
    /\ Len(seek_writes) = 2
    /\ seek_writes[1] > 0

\* C25: the decomposed variant is kept in step.  After a run, every key
\* whose Formatted = 2 text was the decomposition of its Formatted = 0 text
\* before the run still has that relation between the two texts.
C25_SeekKeepsDecomposed ==
    seek_pc = "done" =>
        \A key \in DOMAIN koKR :
            (/\ FormattedOf(key) = 0
             /\ <<LocIdOf(key), 2>> \in DOMAIN koKR
             /\ koKR_start[<<LocIdOf(key), 2>>] = formatting_for_2(koKR_start[key]))
            => koKR[<<LocIdOf(key), 2>>] = formatting_for_2(koKR[key])

(***************************************************************************)
(* Further properties of the substitution (under SpecSubst).               *)
(***************************************************************************)
\* C26: the Korean find-and-replace loop terminates.  For every pair the
\* derivation of lines 405-416 can produce, the number of iterations of the
\* while loop of one pair is at most the length of the input text.
C26_KoLoopBounded ==
    (lang = "ko" /\ phase \in {"replace", "raised"}) => iters <= Len(loc_text)

\* the flags of a text none of whose characters was inserted by a pair
Unmarked(s) == [k \in 1..Len(s) |-> FALSE]

RECURSIVE MarkedReplace(_, _, _, _)
\* s.replace(old, new) of lines 444-445 on a text s whose characters carry
\* the flags m (TRUE: inserted by an earlier pair): the new text, its flags
\* and whether one of the occurrences replaced held an inserted character
MarkedReplace(s, m, old, new) ==
    LET i == Find(s, old, 0)
    IN  IF old = <<>>
        THEN [text |-> Replace(s, old, new),
              marks |-> Interleave(m, Unmarked(new)) \o Unmarked(new),
              hit |-> FALSE]
        ELSE IF i = -1 THEN [text |-> s, marks |-> m, hit |-> FALSE]
        ELSE LET rest == MarkedReplace(Slice(s, i + Len(old), Len(s)),
                                       Slice(m, i + Len(old), Len(m)), old, new)
             IN  [text |-> Slice(s, 0, i) \o new \o rest.text,
                  marks |-> Slice(m, 0, i) \o [k \in 1..Len(new) |-> TRUE]
                            \o rest.marks,
                  hit |-> rest.hit \/ \E k \in (i + 1)..(i + Len(old)) : m[k]]

RECURSIVE MarkedRun(_, _, _, _)
\* the for loop of lines 444-445 from pair k on
MarkedRun(s, m, pairs, k) ==
    IF k > Len(pairs) THEN [text |-> s, hit |-> FALSE]
    ELSE LET r == MarkedReplace(s, m, pairs[k][1], pairs[k][2])
             rest == MarkedRun(r.text, r.marks, pairs, k + 1)
         IN  [text |-> rest.text, hit |-> r.hit \/ rest.hit]

\* the replacement loop of the English branch has run through all pairs
EnPairsDone ==
    /\ lang = "en"
    /\ phase = "replace"
    /\ pass = 1
    /\ pair_k > Len(replace_map)

\* C27: within one substitution, no pair replaces an occurrence of its old
\* string that holds a character inserted by an earlier pair of the same
\* list.
C27_InsertedTextNotRewritten ==
    EnPairsDone =>
        LET protected == Protect(loc_text, sorted_creature_types).work_text
        IN  ~MarkedRun(protected, Unmarked(protected), replace_map, 1).hit

\* the marked loop computes the text the replacement loop computes
MarkedRunIsTheLoop ==
    EnPairsDone =>
        LET protected == Protect(loc_text, sorted_creature_types).work_text
        IN  MarkedRun(protected, Unmarked(protected), replace_map, 1).text = work_text

(***************************************************************************)
(* Further property of update_ability_text (under SpecAbility).            *)
(***************************************************************************)
\* the directives whose ability texts include the record key
DirectivesOf(key) ==
    { i \in 1..Len(translation_data) :
        /\ Resolves(translation_data[i])
        /\ LocIdOf(key) \in TextIdsOf[translation_data[i].titleId] }

\* C28: variant isolation.  After a committed call every record of the two
\* tables either holds the text it held before the call or the text the
\* substitution of one directive computes from that record's own text;
\* a record whose substituted text equals its text is not changed.
C28_VariantIsolation ==
    upc = "done" =>
        /\ \A key \in DOMAIN enUS :
              enUS[key] # enUS_start[key] =>
                  \E i \in DirectivesOf(key) :
                      enUS[key] = SubstituteEn(enUS_start[key], creature_types.en,
                                               Replacements(translation_data[i]).en).text
        /\ \A key \in DOMAIN koKR :
              koKR[key] # koKR_start[key] =>
                  \E i \in DirectivesOf(key) :
                      koKR[key] = KoRow(koKR_start, key, creature_types,
                                        Replacements(translation_data[i])).text

(***************************************************************************)
(* Further property of PatchWorker.run (under SpecWorker).                 *)
(***************************************************************************)
\* C29: run emits the finished signal exactly once per run on every path.
\* The signal is never emitted a second time, and a run that has ended has
\* emitted it once.
C29_FinishedOnce ==
    /\ finished <= 1
    /\ worker_pc = "done" => finished = 1

(***************************************************************************)
(*                    PatcherWindow: lines 1296-1457                       *)
(***************************************************************************)
\* the widgets after update_ui_state (lines 1360-1405), given what is checked
\* when the handler starts; setChecked(False) of lines 1365-1367 re-enters
\* the handler with the same outcome.  The button texts, Korean in the
\* source, are written by their English meaning.
update_ui_state(mistranslation, images, english_only, is_remove, group, button) ==
    IF is_remove
    THEN [mistranslation_check |-> [checked |-> FALSE, enabled |-> FALSE],
          image_check |-> [checked |-> FALSE, enabled |-> FALSE],
          english_names_only_check |-> [checked |-> FALSE, enabled |-> FALSE],
          name_group |-> [group EXCEPT !.enabled = FALSE],
          run_button |-> [enabled |-> TRUE, text |-> <<"remove patch: start">>]]
    ELSE LET texts == (IF images THEN <<"real cards">> ELSE <<>>)
                      \o (IF mistranslation THEN <<"mistranslation">> ELSE <<>>)
                      \o (IF english_only THEN <<"english names">> ELSE <<>>)
         IN  [mistranslation_check |-> [checked |-> mistranslation, enabled |-> TRUE],
              image_check |-> [checked |-> images, enabled |-> TRUE],
              english_names_only_check |-> [checked |-> english_only, enabled |-> TRUE],
              name_group |-> [group EXCEPT !.enabled = images],
              run_button |->
                  [enabled |-> mistranslation \/ images \/ english_only,
                   text |-> IF texts # <<>> THEN texts \o <<"start patch">>
                            ELSE <<"select an option">>]]

\* the four check boxes connected to update_ui_state (lines 1350-1353)
CheckBoxes == {"mistranslation", "image", "english_names_only", "remove_patch"}

\* the window takes user input: shown, or the 3 s before it closes
Interactive == window \in {"shown", "closing"}

\* stateChanged of one check box: the user toggles an enabled box and the
\* connected update_ui_state runs
GUI_Toggle(box) ==
    /\ Interactive
    /\ \/ box = "mistranslation" /\ mistranslation_check.enabled
       \/ box = "image" /\ image_check.enabled
       \/ box = "english_names_only" /\ english_names_only_check.enabled
       \/ box = "remove_patch" /\ remove_patch_check.enabled
    /\ LET flip(name, check) == IF box = name THEN ~check.checked ELSE check.checked
           ui == update_ui_state(flip("mistranslation", mistranslation_check),
                                 flip("image", image_check),
                                 flip("english_names_only", english_names_only_check),
                                 flip("remove_patch", remove_patch_check),
                                 name_group, run_button)
       IN  /\ mistranslation_check' = ui.mistranslation_check
           /\ image_check' = ui.image_check
           /\ english_names_only_check' = ui.english_names_only_check
           /\ remove_patch_check' =
                  [remove_patch_check EXCEPT !.checked = flip("remove_patch", remove_patch_check)]
           /\ name_group' = ui.name_group
           /\ run_button' = ui.run_button
    /\ UNCHANGED <<window, threads>>
    /\ UNCHANGED guiOthers

NameOptionsOfGroup == {"art_only", "real_english", "unofficial_korean"}

\* the user picks a radio button of the enabled name group (lines 1311-1314)
GUI_Radio(option) ==
    /\ Interactive
    /\ name_group.enabled
    /\ option # name_group.radio
    /\ name_group' = [name_group EXCEPT !.radio = option]
    /\ UNCHANGED <<window, mistranslation_check, image_check,
                   english_names_only_check, remove_patch_check, run_button, threads>>
    /\ UNCHANGED guiOthers

MaxThreads == 2

\* lines 1411-1440: a click on the enabled run button
start_patch ==
    /\ Interactive
    /\ run_button.enabled
    /\ Len(threads) < MaxThreads
    /\ run_button' = [enabled |-> FALSE, text |-> <<"patch in progress...">>]
    /\ threads' = Append(threads,
                         [patch_options |->
                              [mistranslation |-> mistranslation_check.checked,
                               images |-> image_check.checked,
                               english_names_only |-> english_names_only_check.checked,
                               remove_patch |-> remove_patch_check.checked,
                               name_option |-> name_group.radio],
                          st |-> "running"])
    /\ UNCHANGED <<window, mistranslation_check, image_check,
                   english_names_only_check, remove_patch_check, name_group>>
    /\ UNCHANGED guiOthers

\* lines 1433-1438, 1454-1457: the worker of thread t emits finished, the
\* thread quits and on_patch_finished runs
on_patch_finished(t) ==
    /\ t \in 1..Len(threads)
    /\ threads[t].st = "running"
    /\ threads' = [threads EXCEPT ![t].st = "finished"]
    /\ run_button' = [run_button EXCEPT !.text = <<"done!">>]
    /\ window' = IF window = "closed" THEN "closed" ELSE "closing"
    /\ UNCHANGED <<mistranslation_check, image_check, english_names_only_check,
                   remove_patch_check, name_group>>
    /\ UNCHANGED guiOthers

\* line 1457: the single-shot timer fires and the window closes
GUI_Close ==
    /\ window = "closing"
    /\ window' = "closed"
    /\ UNCHANGED <<mistranslation_check, image_check, english_names_only_check,
                   remove_patch_check, name_group, run_button, threads>>
    /\ UNCHANGED guiOthers

GuiNext ==
    \/ \E box \in CheckBoxes : GUI_Toggle(box)
    \/ \E option \in NameOptionsOfGroup : GUI_Radio(option)
    \/ start_patch
    \/ \E t \in 1..MaxThreads : on_patch_finished(t)
    \/ GUI_Close

\* lines 1297-1358: the window as __init__ leaves it
GuiInit ==
    /\ SubstIdle
    /\ AbilityIdle
    /\ ImageIdle
    /\ ResolveIdle
    /\ RemovalIdle
    /\ NamesIdle
    /\ WorkerIdle
    /\ PoolIdle
    /\ PageIdle
    /\ SeekIdle
    /\ window = "shown"
    /\ LET ui == update_ui_state(TRUE, FALSE, FALSE, FALSE,
                                 [enabled |-> TRUE, radio |-> "art_only"],
                                 [enabled |-> TRUE, text |-> <<"start patch">>])
       IN  /\ mistranslation_check = ui.mistranslation_check
           /\ image_check = ui.image_check
           /\ english_names_only_check = ui.english_names_only_check
           /\ name_group = ui.name_group
           /\ run_button = ui.run_button
    /\ remove_patch_check = [checked |-> FALSE, enabled |-> TRUE]
    /\ threads = <<>>

SpecGui == GuiInit /\ [][GuiNext]_vars

\* the threads whose worker has not finished
RunningThreads == { t \in 1..Len(threads) : threads[t].st = "running" }

\* C30: at most one patch run is in progress.  While a worker has not
\* finished the run button is disabled, whatever the user toggles, and no
\* second worker runs next to it.
C30_SingleRun ==
    /\ RunningThreads # {} => ~run_button.enabled
    /\ Cardinality(RunningThreads) <= 1
====
